---- MODULE Spec2Model ----
(***************************************************************************)
(* State-machine model of the peripheral managers of esp32_cpp_library.    *)
(*                                                                         *)
(* This part models ESP32_WIFI::WiFiManager (WiFiManager.cpp, wifi.hpp):   *)
(* the manager's fields, the event group it waits on, and the part of the  *)
(* Wi-Fi driver it talks to (operating mode, started flag, station link,   *)
(* default event loop).  Every public method and the event handler is one  *)
(* action; waitForConnection, the only blocking call, is split at its      *)
(* wait.  The fields keep their names in the source.                       *)
(*                                                                         *)
(* The later parts model ESP32_GPIO::GpioManager (GpioManager.cpp),        *)
(* ESP32_ADC::ADCManager (adc.cpp) and ESP32_MQTT::MqttClient (mqtt.cpp).  *)
(* The managers share no state, so each has its own specification, in      *)
(* which the other managers stay as constructed.                           *)
(***************************************************************************)
EXTENDS Integers, Sequences, FiniteSets, TLC

(***************************************************************************)
(* Bounds of the model.                                                    *)
(***************************************************************************)
MaxQueue == 1            \* events pending in the default event loop
MaxTimeoutMs == 10       \* largest timeout handed to waitForConnection
MaxScanResults == 1      \* largest maxResults handed to scanNetworks
MaxNetworks == 1         \* networks in range during a scan
MaxTrace == 3            \* calls and handler runs remembered since construction
MaxInstallRequests == 2  \* interrupt-service installs counted (the count saturates)
MaxRaw == 2              \* largest raw sample the ADC hands back
MaxHandles == 2          \* continuous ADC handles the driver has memory for
MaxClients == 2          \* MQTT clients the library has memory for

(***************************************************************************)
(* Program constants.                                                      *)
(***************************************************************************)
WIFI_CONNECTED_BIT == 1
WIFI_FAIL_BIT == 2
portTICK_PERIOD_MS == 10
SSID_BUF == 32
PASSWORD_BUF == 64

WiFiModes == {"STATION", "ACCESS_POINT", "BOTH"}
WiFiStatuses == {"DISCONNECTED", "CONNECTING", "CONNECTED", "FAILED"}
HwModes == {"WIFI_MODE_NULL", "WIFI_MODE_STA", "WIFI_MODE_AP", "WIFI_MODE_APSTA"}
StaHwModes == {"WIFI_MODE_STA", "WIFI_MODE_APSTA"}
ApHwModes == {"WIFI_MODE_AP", "WIFI_MODE_APSTA"}
Events == {"WIFI_EVENT_STA_START", "WIFI_EVENT_STA_DISCONNECTED",
           "WIFI_EVENT_AP_STACONNECTED", "WIFI_EVENT_AP_STADISCONNECTED",
           "IP_EVENT_STA_GOT_IP"}

(***************************************************************************)
(* Strings are sequences of character codes, so that strncpy into the      *)
(* driver's fixed buffers is the truncation it is.                         *)
(***************************************************************************)
Str(c, n) == [i \in 1..n |-> c]
EmptyStr == << >>
LongSsid == Str(4, SSID_BUF + 1)

\* the (ssid, password, hostname) triples configureStation is called with
StationInputs == { <<Str(1, 3), Str(2, 2), EmptyStr>>,
                   <<LongSsid, EmptyStr, Str(3, 5)>> }
\* the (ssid, password, channel, maxConnections) tuples configureAP is called with
APInputs == { <<Str(5, 2), EmptyStr, 1, 4>>,
              <<Str(6, 4), Str(7, 8), 6, 2>> }
\* the (callback, userData) pairs setEventCallback is called with
CallbackInputs == { <<"nullptr", "nullptr">>, <<"cb1", "data1">> }

\* the timeouts waitForConnection is called with
TimeoutInputs == {0, portTICK_PERIOD_MS - 1, MaxTimeoutMs}

Min(a, b) == IF a < b THEN a ELSE b

\* return values are observed as text: "true", "false", "void", a count
Bool(b) == IF b THEN "true" ELSE "false"

\* strncpy(dst, src, n) into a zeroed buffer, read back as a C string
strncpy(src, n) == SubSeq(src, 1, Min(Len(src), n))

VARIABLES
    \* WiFiManager fields
    _mode, _status, _stationSSID, _stationPassword, _apSSID, _apPassword,
    _eventCallback, _userCallbackData, _initialized, _staNetif, _apNetif,
    \* file-scope event group: the handle and its bits
    s_wifi_event_group, eventBits,
    \* Wi-Fi driver and runtime
    eventLoopCreated, handlersRegistered, hostname,
    hwMode, hwStarted, staLink, hwApConfig, eventQueue,
    \* the application context: idle, waiting in xEventGroupWaitBits, or woken
    \* from it with the bits uxReturn
    pc, ticksLeft, uxReturn,
    \* observations of the last step and of the run
    lastOp, ret, calls, notes, trace,
    \* the inputs of the last step on a GPIO, ADC or MQTT manager: the arguments
    \* of the call and what the hardware handed it
    args,
    \* GpioManager fields
    gpio_initialized, _configs,
    \* GPIO driver: the interrupt service, and per pin the direction, the output
    \* latch, the armed handler and the interrupt enable
    isrServiceInstalled, pinMode, outLatch, isrHandlers, intrEnabled,
    \* history of GpioManager::init: install requests made, first result
    installRequests, firstInit,
    \* the two tasks inside the WiFiManager: the user data a setEventCallback in
    \* progress has still to store, and the event and callback of a handler run
    \* that has checked the callback and not yet invoked it
    writing, dispatching,
    \* per task the toggle it is in: the pin, the level it has read and, for
    \* the record, what the output latch held at that moment
    toggling,
    \* history of resetPin: the pins reset with a callback stored, since that
    \* callback was stored
    resetPins,
    \* ADCManager fields; a handle is 0 (nullptr) or the number of the driver
    \* object it refers to
    one_shot_unit_handle, continuous_handle, cali_handle, user_callback,
    continuous_running, channel_atten_map,
    \* ADC driver: continuous handles created so far, those with the
    \* conversion-done trampoline registered, those sampling
    handlesCreated, armedHandles, startedHandles,
    \* some configOneShot has returned ESP_OK; what the last call wrote through
    \* its output pointer
    oneShotConfigured, out,
    \* MqttClient fields
    _client, _config, mqtt_status, _userCallback, _userData, _brokerUri, _clientId,
    _willTopic, _willPayload, _willQos, _willRetain,
    \* MQTT library: clients created so far, the configuration the current
    \* client copied when it was created, the clients whose task runs
    clientsCreated, session, startedClients,
    \* some configure has returned true
    configured

mgrVars == <<_mode, _status, _stationSSID, _stationPassword, _apSSID, _apPassword,
             _eventCallback, _userCallbackData>>
credVars == <<_stationSSID, _stationPassword, _apSSID, _apPassword>>
cbVars == <<_eventCallback, _userCallbackData>>
initVars == <<_initialized, _staNetif, _apNetif, s_wifi_event_group,
              eventLoopCreated, handlersRegistered>>
hwVars == <<hostname, hwStarted, staLink, hwApConfig, eventQueue>>
waitVars == <<pc, ticksLeft, uxReturn>>
obsVars == <<lastOp, ret, calls, notes, trace>>
taskVars == <<writing, dispatching, toggling>>
wifiVars == <<mgrVars, initVars, eventBits, hwMode, hwVars, waitVars, trace, taskVars>>
stepVars == <<lastOp, ret, calls, notes, args>>
gpioVars == <<gpio_initialized, _configs, isrServiceInstalled, pinMode, outLatch,
              isrHandlers, intrEnabled, installRequests, firstInit, resetPins>>
adcVars == <<one_shot_unit_handle, continuous_handle, cali_handle, user_callback,
             continuous_running, channel_atten_map, handlesCreated, armedHandles, startedHandles,
             oneShotConfigured, out>>
willVars == <<_willTopic, _willPayload, _willQos, _willRetain>>
mqttVars == <<_client, _config, mqtt_status, _userCallback, _userData, _brokerUri,
              _clientId, willVars, clientsCreated, session, startedClients, configured>>
\* what a step of the WiFiManager leaves alone
peerVars == <<args, taskVars, gpioVars, adcVars, mqttVars>>
vars == <<mgrVars, initVars, eventBits, hwMode, hwVars, waitVars, obsVars, peerVars>>

(***************************************************************************)
(* Observations.                                                           *)
(***************************************************************************)
CountConnect(c) == Cardinality({i \in 1..Len(c) : c[i] = "esp_wifi_connect"})

\* the trace of a run longer than the trace remembers
Overflow == << <<"more", "none", 0>> >>

\* the calls and handler runs since construction, remembered up to MaxTrace of
\* them: each with its result and the number of connect attempts it made
Record(op, r, c) ==
    IF trace = Overflow \/ Len(trace) >= MaxTrace THEN Overflow
    ELSE Append(trace, <<op, r, CountConnect(c)>>)

\* an application call that returned r after the driver calls c
Returned(op, r, c) ==
    /\ lastOp' = op
    /\ ret' = r
    /\ calls' = c
    /\ notes' = << >>
    /\ trace' = Record(op, r, c)

\* the access-point configuration of a driver that was given none
NoApConfig ==
    [ ssid |-> EmptyStr, ssid_len |-> 0, password |-> EmptyStr, authmode |-> "unset",
      max_connection |-> 0, channel |-> 0 ]

(***************************************************************************)
(* WiFiManager::WiFiManager()                                              *)
(***************************************************************************)
WiFiManager ==
    /\ _mode = "STATION"
    /\ _status = "DISCONNECTED"
    /\ _stationSSID = EmptyStr
    /\ _stationPassword = EmptyStr
    /\ _apSSID = EmptyStr
    /\ _apPassword = EmptyStr
    /\ _eventCallback = "nullptr"
    /\ _userCallbackData = "nullptr"
    /\ _initialized = FALSE
    /\ _staNetif = "nullptr"
    /\ _apNetif = "nullptr"
    /\ s_wifi_event_group = "nullptr"
    /\ eventBits = {}

\* the driver before esp_wifi_init, and an idle application
PowerOn ==
    /\ eventLoopCreated = FALSE
    /\ handlersRegistered = FALSE
    /\ hostname = EmptyStr
    /\ hwMode = "WIFI_MODE_NULL"
    /\ hwStarted = FALSE
    /\ staLink = "idle"
    /\ hwApConfig = NoApConfig
    /\ eventQueue = << >>
    /\ pc = "idle"
    /\ ticksLeft = 0
    /\ uxReturn = {}
    /\ lastOp = "construct"
    /\ ret = "none"
    /\ calls = << >>
    /\ notes = << >>
    /\ trace = << >>
    /\ args = << >>
    /\ writing = << >>
    /\ dispatching = << >>
    /\ toggling = [t \in {"app", "isr"} |-> << >>]

(***************************************************************************)
(* GpioManager::GpioManager(), and the GPIO driver before any call.        *)
(***************************************************************************)
Pins == {4, 5}
Levels == {0, 1}
GpioCallbacks == {"nullptr", "cbA", "cbB"}
PinModes == {"DISABLED", "INPUT", "OUTPUT"}
InterruptTriggers == {"NONE", "RISING", "FALLING", "BOTH"}
GpioHwModes == {"GPIO_MODE_DISABLE", "GPIO_MODE_INPUT", "GPIO_MODE_OUTPUT",
                "GPIO_MODE_INPUT_OUTPUT_OD"}

GpioManager ==
    /\ gpio_initialized = FALSE
    /\ _configs = [p \in Pins |-> "nullptr"]

GpioPowerOn ==
    /\ isrServiceInstalled = FALSE
    /\ pinMode = [p \in Pins |-> "GPIO_MODE_DISABLE"]
    /\ outLatch = [p \in Pins |-> 0]
    /\ isrHandlers = {}
    /\ intrEnabled = {}
    /\ installRequests = 0
    /\ firstInit = "none"
    /\ resetPins = {}

(***************************************************************************)
(* ADCManager::ADCManager(), and the ADC driver before any call.           *)
(***************************************************************************)
ADCManager ==
    /\ one_shot_unit_handle = 0
    /\ continuous_handle = 0
    /\ cali_handle = 0
    /\ user_callback = "nullptr"
    /\ continuous_running = FALSE
    /\ channel_atten_map = << >>

AdcPowerOn ==
    /\ handlesCreated = 0
    /\ armedHandles = {}
    /\ startedHandles = {}
    /\ oneShotConfigured = FALSE
    /\ out = << >>

(***************************************************************************)
(* MqttClient::MqttClient(), and the MQTT library before any call.         *)
(***************************************************************************)
\* esp_mqtt_client_config_t as far as configure fills it; a null string
\* pointer reads as the empty string
NoConfig ==
    [ uri |-> "", client_id |-> "", disable_clean_session |-> FALSE,
      lwt_topic |-> "", lwt_msg |-> "", lwt_qos |-> 0, lwt_retain |-> FALSE ]

MqttClient ==
    /\ _client = 0
    /\ _config = NoConfig
    /\ mqtt_status = "DISCONNECTED"
    /\ _userCallback = "nullptr"
    /\ _userData = "nullptr"
    /\ _brokerUri = ""
    /\ _clientId = ""
    /\ _willTopic = ""
    /\ _willPayload = ""
    /\ _willQos = 0
    /\ _willRetain = FALSE

MqttPowerOn ==
    /\ clientsCreated = 0
    /\ session = NoConfig
    /\ startedClients = {}
    /\ configured = FALSE

Init ==
    /\ WiFiManager /\ PowerOn
    /\ GpioManager /\ GpioPowerOn
    /\ ADCManager /\ AdcPowerOn
    /\ MqttClient /\ MqttPowerOn

(***************************************************************************)
(* ESP_ERROR_CHECK(err) with err != ESP_OK: abort(), the chip restarts and *)
(* the program starts over with a freshly constructed manager.             *)
(***************************************************************************)
Abort ==
    /\ _mode' = "STATION"
    /\ _status' = "DISCONNECTED"
    /\ _stationSSID' = EmptyStr
    /\ _stationPassword' = EmptyStr
    /\ _apSSID' = EmptyStr
    /\ _apPassword' = EmptyStr
    /\ _eventCallback' = "nullptr"
    /\ _userCallbackData' = "nullptr"
    /\ _initialized' = FALSE
    /\ _staNetif' = "nullptr"
    /\ _apNetif' = "nullptr"
    /\ s_wifi_event_group' = "nullptr"
    /\ eventBits' = {}
    /\ eventLoopCreated' = FALSE
    /\ handlersRegistered' = FALSE
    /\ hostname' = EmptyStr
    /\ hwMode' = "WIFI_MODE_NULL"
    /\ hwStarted' = FALSE
    /\ staLink' = "idle"
    /\ hwApConfig' = NoApConfig
    /\ eventQueue' = << >>
    /\ pc' = "idle"
    /\ ticksLeft' = 0
    /\ uxReturn' = {}
    /\ lastOp' = "construct"
    /\ ret' = "none"
    /\ calls' = << >>
    /\ notes' = << >>
    /\ trace' = << >>

(***************************************************************************)
(* WiFiManager::init()                                                     *)
(*                                                                         *)
(* o is what the runtime does with the one-time setup: "ok", no event      *)
(* group, no station or access-point interface, or an error code under     *)
(* ESP_ERROR_CHECK.  Creating the default event loop a second time is such *)
(* an error code (ESP_ERR_INVALID_STATE).  stored is the operating mode    *)
(* the driver reports after esp_wifi_init.                                 *)
(***************************************************************************)
InitOutcomes ==
    IF _initialized THEN {"ok"}
    ELSE IF eventLoopCreated THEN {"abort"}
    ELSE {"ok", "no_event_group", "no_sta_netif", "no_ap_netif", "abort"}

\* the modes esp_wifi_init may find stored
StoredModes == IF _initialized THEN {hwMode} ELSE {"WIFI_MODE_NULL", "WIFI_MODE_STA"}

\* init() is entered and an ESP_ERROR_CHECK inside it fails
InitAborts(o) == ~_initialized /\ o = "abort"

\* the value of `_initialized || init()`
Ready(o) == _initialized \/ o = "ok"

InitCalls(o) ==
    IF _initialized THEN << >>
    ELSE <<"nvs_flash_init", "esp_event_loop_create_default", "esp_netif_init",
           "xEventGroupCreate">>
         \o (IF o = "no_event_group" THEN << >>
             ELSE <<"esp_netif_create_default_wifi_sta",
                    "esp_netif_create_default_wifi_ap">>)
         \o (IF o = "ok"
             THEN <<"esp_wifi_init", "esp_event_handler_register",
                    "esp_event_handler_register">>
             ELSE << >>)

\* the operating mode the driver holds once `_initialized || init()` is evaluated
ModeAfterInit(o, stored) == IF ~_initialized /\ o = "ok" THEN stored ELSE hwMode

\* the fields init() writes, for an outcome that is not an abort
init_steps(o) ==
    IF _initialized THEN UNCHANGED initVars
    ELSE /\ eventLoopCreated' = TRUE
         /\ s_wifi_event_group' = IF o = "no_event_group" THEN "nullptr" ELSE "group"
         /\ _staNetif' = IF o \in {"no_event_group", "no_sta_netif"} THEN _staNetif
                         ELSE "sta_netif"
         /\ _apNetif' = IF o \in {"no_event_group", "no_ap_netif"} THEN _apNetif
                        ELSE "ap_netif"
         /\ handlersRegistered' = (o = "ok")
         /\ _initialized' = (o = "ok")

init(o, stored) ==
    /\ pc = "idle"
    /\ IF InitAborts(o) THEN Abort
       ELSE /\ init_steps(o)
            /\ hwMode' = ModeAfterInit(o, stored)
            /\ Returned("init", Bool(Ready(o)), InitCalls(o))
            /\ UNCHANGED <<mgrVars, eventBits, hwVars, waitVars>>

(***************************************************************************)
(* WiFiManager::configureStation(ssid, password, hostname)                 *)
(***************************************************************************)
configureStation_mode(m) == IF m = "ACCESS_POINT" THEN "BOTH" ELSE "STATION"

configureStation(in, o, stored) ==
    /\ pc = "idle"
    /\ IF InitAborts(o) THEN Abort
       ELSE /\ init_steps(o)
            /\ hwMode' = ModeAfterInit(o, stored)
            /\ IF ~Ready(o)
               THEN /\ Returned("configureStation", "false", InitCalls(o))
                    /\ UNCHANGED <<mgrVars, eventBits, hwVars, waitVars>>
               ELSE /\ _stationSSID' = in[1]
                    /\ _stationPassword' = in[2]
                    /\ hostname' = IF in[3] # EmptyStr THEN in[3] ELSE hostname
                    /\ _mode' = configureStation_mode(_mode)
                    /\ Returned("configureStation", "true",
                                InitCalls(o) \o (IF in[3] # EmptyStr
                                                 THEN <<"esp_netif_set_hostname">>
                                                 ELSE << >>))
                    /\ UNCHANGED <<_status, _apSSID, _apPassword, cbVars, eventBits,
                                   hwStarted, staLink, hwApConfig, eventQueue,
                                   waitVars>>

(***************************************************************************)
(* WiFiManager::configureAP(ssid, password, channel, maxConnections)       *)
(***************************************************************************)
configureAP_mode(m) == IF m = "STATION" THEN "BOTH" ELSE "ACCESS_POINT"

\* the wifi_config_t handed to esp_wifi_set_config(WIFI_IF_AP, ...)
ap_wifi_config(in) ==
    [ ssid |-> strncpy(in[1], SSID_BUF - 1),
      ssid_len |-> Len(in[1]),
      password |-> IF in[2] = EmptyStr THEN EmptyStr
                   ELSE strncpy(in[2], PASSWORD_BUF - 1),
      authmode |-> IF in[2] = EmptyStr THEN "WIFI_AUTH_OPEN" ELSE "WIFI_AUTH_WPA2_PSK",
      max_connection |-> in[4],
      channel |-> in[3] ]

configureAP(in, o, stored, hwOk) ==
    /\ pc = "idle"
    /\ IF InitAborts(o) \/ (Ready(o) /\ ~hwOk) THEN Abort
       ELSE /\ init_steps(o)
            /\ hwMode' = ModeAfterInit(o, stored)
            /\ IF ~Ready(o)
               THEN /\ Returned("configureAP", "false", InitCalls(o))
                    /\ UNCHANGED <<mgrVars, eventBits, hwVars, waitVars>>
               ELSE /\ _apSSID' = in[1]
                    /\ _apPassword' = in[2]
                    /\ _mode' = configureAP_mode(_mode)
                    /\ hwApConfig' = ap_wifi_config(in)
                    /\ Returned("configureAP", "true",
                                InitCalls(o) \o <<"esp_wifi_set_config">>)
                    /\ UNCHANGED <<_status, _stationSSID, _stationPassword, cbVars,
                                   eventBits, hostname, hwStarted, staLink,
                                   eventQueue, waitVars>>

(***************************************************************************)
(* WiFiManager::setEventCallback(callback, userData)                       *)
(***************************************************************************)
\* a setEventCallback that also resets the status when the observer is replaced
setEventCallback_resetsStatus(cb) ==
    /\ pc = "idle"
    /\ _eventCallback' = cb[1]
    /\ _userCallbackData' = cb[2]
    /\ _status' = "DISCONNECTED"
    /\ Returned("setEventCallback", "void", << >>)
    /\ UNCHANGED <<_mode, credVars, initVars, eventBits, hwMode, hwVars, waitVars>>

setEventCallback(cb) ==
    /\ pc = "idle"
    /\ _eventCallback' = cb[1]
    /\ _userCallbackData' = cb[2]
    /\ Returned("setEventCallback", "void", << >>)
    /\ UNCHANGED <<_mode, _status, credVars, initVars, eventBits, hwMode, hwVars,
                   waitVars>>

(***************************************************************************)
(* The Wi-Fi driver as the manager sees it: what each call does to the     *)
(* operating mode, the started flag and the station link, and which events *)
(* it posts to the default event loop.                                     *)
(***************************************************************************)
Room(n) == Len(eventQueue) + n <= MaxQueue

\* the switch of start(): WiFiMode to wifi_mode_t
HwModeOf(m) ==
    CASE m = "STATION" -> "WIFI_MODE_STA"
      [] m = "ACCESS_POINT" -> "WIFI_MODE_AP"
      [] m = "BOTH" -> "WIFI_MODE_APSTA"

StationActive(m) == m = "STATION" \/ m = "BOTH"

\* esp_wifi_set_mode(new) on a driver in mode old
set_mode_posts(old, new, started, link) ==
    (IF started /\ link = "connected" /\ new \notin StaHwModes
     THEN <<"WIFI_EVENT_STA_DISCONNECTED">> ELSE << >>)
    \o (IF started /\ old \notin StaHwModes /\ new \in StaHwModes
        THEN <<"WIFI_EVENT_STA_START">> ELSE << >>)

set_mode_link(new, link) == IF new \in StaHwModes THEN link ELSE "idle"

\* esp_wifi_start()
start_posts(started, m) ==
    IF ~started /\ m \in StaHwModes THEN <<"WIFI_EVENT_STA_START">> ELSE << >>

\* esp_wifi_connect(): an attempt begins when the station interface is up and idle
connect_link(started, m, link) ==
    IF started /\ m \in StaHwModes /\ link = "idle" THEN "connecting" ELSE link

\* esp_wifi_stop()
stop_posts(started, link) ==
    IF started /\ link = "connected" THEN <<"WIFI_EVENT_STA_DISCONNECTED">> ELSE << >>

(***************************************************************************)
(* WiFiManager::start()                                                    *)
(***************************************************************************)
\* the driver calls of start(); the station wifi_config_t, copied from the
\* stored credentials, is handed over by the esp_wifi_set_config call
start_calls(m) ==
    <<"esp_wifi_set_mode">>
    \o (IF StationActive(m) THEN <<"esp_wifi_set_config">> ELSE << >>)
    \o <<"esp_wifi_start">>
    \o (IF StationActive(m) THEN <<"esp_wifi_connect">> ELSE << >>)

\* a start() that leaves the status to the event handler
start_status_unset(m, st) == st

start_status(m, st) == IF StationActive(m) THEN "CONNECTING" ELSE st

start(o, stored, hwOk) ==
    /\ pc = "idle"
    /\ IF InitAborts(o) \/ (Ready(o) /\ ~hwOk) THEN Abort
       ELSE /\ init_steps(o)
            /\ IF ~Ready(o)
               THEN /\ hwMode' = ModeAfterInit(o, stored)
                    /\ Returned("start", "false", InitCalls(o))
                    /\ UNCHANGED <<mgrVars, eventBits, hwVars, waitVars>>
               ELSE LET old == ModeAfterInit(o, stored)
                        new == HwModeOf(_mode)
                        posts == set_mode_posts(old, new, hwStarted, staLink)
                                 \o start_posts(hwStarted, new)
                        link1 == set_mode_link(new, staLink)
                    IN /\ Room(Len(posts))
                       /\ hwMode' = new
                       /\ hwStarted' = TRUE
                       /\ staLink' = IF StationActive(_mode)
                                     THEN connect_link(TRUE, new, link1) ELSE link1
                       /\ eventQueue' = eventQueue \o posts
                       /\ _status' = start_status(_mode, _status)
                       /\ Returned("start", "true", InitCalls(o) \o start_calls(_mode))
                       /\ UNCHANGED <<_mode, credVars, cbVars, eventBits, hostname,
                                      hwApConfig, waitVars>>

(***************************************************************************)
(* WiFiManager::stop()                                                     *)
(***************************************************************************)
stop(hwOk) ==
    /\ pc = "idle"
    /\ IF ~_initialized
       THEN /\ Returned("stop", "true", << >>)
            /\ UNCHANGED <<mgrVars, initVars, eventBits, hwMode, hwVars, waitVars>>
       ELSE IF ~hwOk
       THEN /\ Returned("stop", "false", <<"esp_wifi_stop">>)
            /\ UNCHANGED <<mgrVars, initVars, eventBits, hwMode, hwVars, waitVars>>
       ELSE /\ Room(Len(stop_posts(hwStarted, staLink)))
            /\ hwStarted' = FALSE
            /\ staLink' = "idle"
            /\ eventQueue' = eventQueue \o stop_posts(hwStarted, staLink)
            /\ _status' = "DISCONNECTED"
            /\ Returned("stop", "true", <<"esp_wifi_stop">>)
            /\ UNCHANGED <<_mode, credVars, cbVars, initVars, eventBits, hwMode,
                           hostname, hwApConfig, waitVars>>

(***************************************************************************)
(* WiFiManager::wifiEventHandler(arg, eventBase, eventId, eventData)       *)
(*                                                                         *)
(* Station and address events wait in the default event loop until the     *)
(* event-loop task runs the handler on them.  A client joining or leaving  *)
(* the access point is handed to the handler as it happens: the handler    *)
(* only logs it, so its place among the pending events carries nothing.    *)
(***************************************************************************)
handler_status_failed(e, st) ==
    CASE e = "WIFI_EVENT_STA_START" -> "CONNECTING"
      [] e = "WIFI_EVENT_STA_DISCONNECTED" -> "FAILED"
      [] e = "IP_EVENT_STA_GOT_IP" -> "CONNECTED"
      [] OTHER -> st

handler_status(e, st) ==
    CASE e = "WIFI_EVENT_STA_START" -> "CONNECTING"
      [] e = "WIFI_EVENT_STA_DISCONNECTED" -> "DISCONNECTED"
      [] e = "IP_EVENT_STA_GOT_IP" -> "CONNECTED"
      [] OTHER -> st

handler_bits(e, b) ==
    CASE e = "WIFI_EVENT_STA_DISCONNECTED" -> (b \ {WIFI_CONNECTED_BIT}) \cup {WIFI_FAIL_BIT}
      [] e = "IP_EVENT_STA_GOT_IP" -> b \cup {WIFI_CONNECTED_BIT}
      [] OTHER -> b

handler_sets_bits(e) ==
    e \in {"WIFI_EVENT_STA_DISCONNECTED", "IP_EVENT_STA_GOT_IP"}

handler_calls(e) ==
    CASE e = "WIFI_EVENT_STA_START" -> <<"esp_wifi_connect">>
      [] e = "WIFI_EVENT_STA_DISCONNECTED" ->
            <<"esp_wifi_connect", "xEventGroupClearBits", "xEventGroupSetBits">>
      [] e = "IP_EVENT_STA_GOT_IP" -> <<"xEventGroupSetBits">>
      [] OTHER -> << >>

\* an observer notified before the handler has written the new status
handler_notes_early(e, cb, data, st) ==
    IF cb # "nullptr" /\ e \in {"WIFI_EVENT_STA_DISCONNECTED", "IP_EVENT_STA_GOT_IP"}
    THEN << [ callback |-> cb,
              status |-> IF e = "IP_EVENT_STA_GOT_IP" THEN "CONNECTED" ELSE "DISCONNECTED",
              userData |-> data,
              at |-> st ] >>
    ELSE << >>

\* the observer invocations of one handler run: the callback invoked, its
\* arguments, and the manager's status at the moment of the invocation
handler_notes(e, cb, data, st) ==
    IF cb # "nullptr" /\ e \in {"WIFI_EVENT_STA_DISCONNECTED", "IP_EVENT_STA_GOT_IP"}
    THEN << [ callback |-> cb,
              status |-> IF e = "IP_EVENT_STA_GOT_IP" THEN "CONNECTED" ELSE "DISCONNECTED",
              userData |-> data,
              at |-> handler_status(e, st) ] >>
    ELSE << >>

\* one run of the handler on the event e
wifiEventHandler(e) ==
    /\ _status' = handler_status(e, _status)
    /\ eventBits' = handler_bits(e, eventBits)
    /\ staLink' = IF CountConnect(handler_calls(e)) > 0
                  THEN connect_link(hwStarted, hwMode, staLink) ELSE staLink
    \* xEventGroupSetBits unblocks a task waiting for either bit
    /\ IF pc = "waiting" /\ handler_sets_bits(e) /\ handler_bits(e, eventBits) # {}
       THEN pc' = "woken" /\ uxReturn' = handler_bits(e, eventBits)
       ELSE UNCHANGED <<pc, uxReturn>>
    /\ lastOp' = "wifiEventHandler"
    /\ ret' = e
    /\ calls' = handler_calls(e)
    /\ notes' = handler_notes(e, _eventCallback, _userCallbackData, _status)
    /\ trace' = Record("wifiEventHandler", e, handler_calls(e))
    /\ UNCHANGED <<_mode, credVars, cbVars, initVars, hwMode, hostname, hwStarted,
                   hwApConfig, ticksLeft>>

\* the event-loop task takes the oldest pending station event
Dispatch ==
    /\ handlersRegistered
    /\ eventQueue # << >>
    /\ wifiEventHandler(Head(eventQueue))
    /\ eventQueue' = Tail(eventQueue)

(***************************************************************************)
(* WiFiManager::waitForConnection(timeoutMs)                               *)
(*                                                                         *)
(* xEventGroupWaitBits(group, CONNECTED|FAIL, pdFALSE, pdFALSE, ticks)     *)
(* returns at once when a bit is already set or ticks is 0, and otherwise  *)
(* parks the caller until a bit is set or the ticks run out.  On a null    *)
(* handle it asserts or faults: the chip restarts.                         *)
(***************************************************************************)
\* the wait entered whatever the mode
wait_applicable_unchecked(m) == TRUE

\* the mode check that guards the wait
wait_applicable(m) == m = "STATION" \/ m = "BOTH"

wait_ticks(timeoutMs) == timeoutMs \div portTICK_PERIOD_MS

\* the value returned for the bits xEventGroupWaitBits hands back
wait_result(bits) == WIFI_CONNECTED_BIT \in bits

waitForConnection(timeoutMs) ==
    /\ pc = "idle"
    /\ IF ~wait_applicable(_mode)
       THEN /\ Returned("waitForConnection", "false", << >>)
            /\ UNCHANGED <<mgrVars, initVars, eventBits, hwMode, hwVars, waitVars>>
       ELSE IF s_wifi_event_group = "nullptr" THEN Abort
       ELSE IF eventBits # {} \/ wait_ticks(timeoutMs) = 0
       THEN /\ ticksLeft' = wait_ticks(timeoutMs)
            /\ uxReturn' = {}
            /\ Returned("waitForConnection", Bool(wait_result(eventBits)),
                        <<"xEventGroupWaitBits">>)
            /\ UNCHANGED <<mgrVars, initVars, eventBits, hwMode, hwVars, pc>>
       ELSE /\ pc' = "waiting"
            /\ ticksLeft' = wait_ticks(timeoutMs)
            /\ uxReturn' = {}
            /\ lastOp' = "xEventGroupWaitBits"
            /\ ret' = "none"
            /\ calls' = <<"xEventGroupWaitBits">>
            /\ notes' = << >>
            /\ UNCHANGED <<mgrVars, initVars, eventBits, hwMode, hwVars, trace>>

\* one tick of the timeout passes while the caller is parked
Tick ==
    /\ pc = "waiting"
    /\ ticksLeft > 0
    /\ ticksLeft' = ticksLeft - 1
    /\ lastOp' = "tick"
    /\ ret' = "none"
    /\ calls' = << >>
    /\ notes' = << >>
    /\ UNCHANGED <<mgrVars, initVars, eventBits, hwMode, hwVars, pc, uxReturn, trace>>

\* the caller was woken by a bit, or its ticks ran out: waitForConnection returns
waitForConnection_return ==
    /\ \/ pc = "woken"
       \/ pc = "waiting" /\ ticksLeft = 0
    /\ pc' = "idle"
    /\ uxReturn' = {}
    /\ Returned("waitForConnection",
                Bool(wait_result(IF pc = "woken" THEN uxReturn ELSE eventBits)), << >>)
    /\ UNCHANGED <<mgrVars, initVars, eventBits, hwMode, hwVars, ticksLeft>>

(***************************************************************************)
(* WiFiManager::scanNetworks(maxResults)                                   *)
(*                                                                         *)
(* found is the number of networks in range; scanOk says whether the scan  *)
(* and the read of its records succeed, which requires a started station   *)
(* interface.  The return value is modelled by the number of records.      *)
(***************************************************************************)
scanNetworks(maxResults, found, scanOk, o, stored) ==
    /\ pc = "idle"
    /\ IF InitAborts(o) THEN Abort
       ELSE /\ init_steps(o)
            /\ IF ~Ready(o)
               THEN /\ hwMode' = ModeAfterInit(o, stored)
                    /\ Returned("scanNetworks", ToString(0), InitCalls(o))
                    /\ UNCHANGED <<mgrVars, eventBits, hwVars, waitVars>>
               ELSE LET currentMode == ModeAfterInit(o, stored)
                        wasNull == currentMode = "WIFI_MODE_NULL"
                        m1 == IF wasNull THEN "WIFI_MODE_STA" ELSE currentMode
                        started1 == wasNull \/ hwStarted
                        posts1 == IF wasNull
                                  THEN set_mode_posts(currentMode, m1, hwStarted, staLink)
                                       \o start_posts(hwStarted, m1)
                                  ELSE << >>
                        ok == scanOk /\ started1 /\ m1 \in StaHwModes
                        posts2 == IF wasNull THEN stop_posts(started1, staLink) ELSE << >>
                    IN /\ scanOk => ok
                       /\ Room(Len(posts1) + Len(posts2))
                       /\ hwMode' = m1
                       /\ hwStarted' = IF wasNull THEN FALSE ELSE hwStarted
                       /\ staLink' = IF wasNull THEN "idle" ELSE staLink
                       /\ eventQueue' = eventQueue \o posts1 \o posts2
                       /\ Returned("scanNetworks",
                                   ToString(IF ok THEN Min(maxResults, found) ELSE 0),
                                   InitCalls(o) \o <<"esp_wifi_get_mode">>
                                   \o (IF wasNull THEN <<"esp_wifi_set_mode", "esp_wifi_start">>
                                       ELSE << >>)
                                   \o <<"esp_wifi_scan_start">>
                                   \o (IF ok THEN <<"esp_wifi_scan_get_ap_records">>
                                       ELSE << >>)
                                   \o (IF wasNull THEN <<"esp_wifi_stop">> ELSE << >>))
                       /\ UNCHANGED <<mgrVars, eventBits, hostname, hwApConfig,
                                      waitVars>>

(***************************************************************************)
(* The radio: a connection attempt succeeds (an address is obtained) or    *)
(* fails, an established link is lost, clients join and leave the access   *)
(* point.                                                                  *)
(***************************************************************************)
Posted(e) ==
    /\ Room(1)
    /\ eventQueue' = Append(eventQueue, e)
    /\ lastOp' = "radio"
    /\ ret' = "none"
    /\ calls' = << >>
    /\ notes' = << >>
    /\ UNCHANGED <<mgrVars, initVars, eventBits, hwMode, hostname, hwStarted,
                   hwApConfig, waitVars, trace>>

RadioGotIp ==
    /\ hwStarted /\ staLink = "connecting"
    /\ staLink' = "connected"
    /\ Posted("IP_EVENT_STA_GOT_IP")

RadioDisconnected ==
    /\ hwStarted /\ staLink \in {"connecting", "connected"}
    /\ staLink' = "idle"
    /\ Posted("WIFI_EVENT_STA_DISCONNECTED")

RadioApClient(e) ==
    /\ handlersRegistered /\ hwStarted /\ hwMode \in ApHwModes
    /\ e \in {"WIFI_EVENT_AP_STACONNECTED", "WIFI_EVENT_AP_STADISCONNECTED"}
    /\ wifiEventHandler(e)
    /\ UNCHANGED eventQueue

(***************************************************************************)
(* The specification.                                                      *)
(***************************************************************************)
Next ==
    \/ \E o \in InitOutcomes, stored \in StoredModes :
          init(o, stored) /\ UNCHANGED peerVars
    \/ \E in \in StationInputs, o \in InitOutcomes, stored \in StoredModes :
          configureStation(in, o, stored) /\ UNCHANGED peerVars
    \/ \E in \in APInputs, o \in InitOutcomes, stored \in StoredModes, hwOk \in BOOLEAN :
          configureAP(in, o, stored, hwOk) /\ UNCHANGED peerVars
    \/ \E cb \in CallbackInputs : setEventCallback(cb) /\ UNCHANGED peerVars
    \/ \E o \in InitOutcomes, stored \in StoredModes, hwOk \in BOOLEAN :
          start(o, stored, hwOk) /\ UNCHANGED peerVars
    \/ \E hwOk \in BOOLEAN : stop(hwOk) /\ UNCHANGED peerVars
    \/ \E timeoutMs \in TimeoutInputs : waitForConnection(timeoutMs) /\ UNCHANGED peerVars
    \/ Tick /\ UNCHANGED peerVars
    \/ waitForConnection_return /\ UNCHANGED peerVars
    \/ \E maxResults \in 0..MaxScanResults, found \in 0..MaxNetworks, scanOk \in BOOLEAN,
          o \in InitOutcomes, stored \in StoredModes :
          scanNetworks(maxResults, found, scanOk, o, stored) /\ UNCHANGED peerVars
    \/ Dispatch /\ UNCHANGED peerVars
    \/ RadioGotIp /\ UNCHANGED peerVars
    \/ RadioDisconnected /\ UNCHANGED peerVars
    \/ \E e \in Events : RadioApClient(e) /\ UNCHANGED peerVars

Spec == Init /\ [][Next]_vars

TypeOK ==
    /\ _mode \in WiFiModes
    /\ _status \in WiFiStatuses
    /\ eventBits \subseteq {WIFI_CONNECTED_BIT, WIFI_FAIL_BIT}
    /\ hwMode \in HwModes
    /\ hwStarted \in BOOLEAN
    /\ staLink \in {"idle", "connecting", "connected"}
    /\ Len(eventQueue) <= MaxQueue
    /\ pc \in {"idle", "waiting", "woken"}
    /\ ticksLeft \in 0..wait_ticks(MaxTimeoutMs)

(***************************************************************************)
(* Properties.                                                             *)
(***************************************************************************)
StaBit(m) == m = "STATION" \/ m = "BOTH"
ApBit(m) == m = "ACCESS_POINT" \/ m = "BOTH"

\* the calls recorded since construction are exactly ops, each having returned true
Called(ops) ==
    /\ Len(trace) = Len(ops)
    /\ \A i \in 1..Len(ops) : Len(trace[i]) = 3 /\ trace[i][1] = ops[i] /\ trace[i][2] = "true"

\* connect attempts made by the recorded calls and handler runs
RECURSIVE ConnectsIn(_)
ConnectsIn(t) == IF t = << >> THEN 0 ELSE t[1][3] + ConnectsIn(Tail(t))

\* C1: on a fresh manager, configureStation then configureAP, and configureAP
\* then configureStation, both leave the mode BOTH.
C1_BothOrdersYieldBoth ==
    /\ Called(<<"configureStation", "configureAP">>) => _mode = "BOTH"
    /\ Called(<<"configureAP", "configureStation">>) => _mode = "BOTH"

\* C2: a repeated configureStation (configureAP) overwrites only the station
\* (access-point) credentials and leaves the other role's credentials and mode
\* bit as they were; a mode BOTH stays BOTH.
C2_RepeatKeepsOtherRole ==
    [][ /\ (lastOp' = "configureStation" /\ ret' = "true" /\ _stationSSID # EmptyStr)
            => /\ _apSSID' = _apSSID /\ _apPassword' = _apPassword
               /\ ApBit(_mode') = ApBit(_mode)
               /\ (_mode = "BOTH" => _mode' = "BOTH")
        /\ (lastOp' = "configureAP" /\ ret' = "true" /\ _apSSID # EmptyStr)
            => /\ _stationSSID' = _stationSSID /\ _stationPassword' = _stationPassword
               /\ StaBit(_mode') = StaBit(_mode)
               /\ (_mode = "BOTH" => _mode' = "BOTH") ]_vars

\* C3 as stated: the status is written only by the event handler and by stop()
\* (and by the constructor's initial value); no other method writes it.
C3_OnlyHandlerAndStop ==
    [][ _status' # _status => lastOp' \in {"wifiEventHandler", "stop", "construct"} ]_vars

\* C3 as amended: the status is written only by the event handler, by stop() and
\* by start(), which sets CONNECTING when the station role is active (and by the
\* constructor's initial value); init, configureStation, configureAP,
\* setEventCallback, waitForConnection and scanNetworks never write it.
C3_OnlyHandlerStopAndStart ==
    [][ /\ _status' # _status
            => lastOp' \in {"wifiEventHandler", "stop", "start", "construct"}
        /\ (_status' # _status /\ lastOp' = "start")
            => StaBit(_mode) /\ _status' = "CONNECTING" ]_vars

\* start() has written the status of a manager that only configureStation touched
C3_Witness ==
    /\ Called(<<"configureStation", "start">>)
    /\ _status = "CONNECTING"

\* C4: every change of status is Disconnected->Connecting, Connecting->Connected,
\* Connecting->Failed, Failed->Connecting, Connected->Connecting, or a change to
\* Disconnected made by stop() (or the constructor's initial value).
C4_StatusEdges ==
    [][ _status' # _status =>
          \/ <<_status, _status'>> \in
                { <<"DISCONNECTED", "CONNECTING">>, <<"CONNECTING", "CONNECTED">>,
                  <<"CONNECTING", "FAILED">>, <<"FAILED", "CONNECTING">>,
                  <<"CONNECTED", "CONNECTING">> }
          \/ _status' = "DISCONNECTED" /\ lastOp' \in {"stop", "construct"} ]_vars

\* C5: waitForConnection returns true only if the status is CONNECTED when it
\* returns.
C5_TrueOnlyWhenConnected ==
    (lastOp = "waitForConnection" /\ ret = "true") => _status = "CONNECTED"

\* C6: with the station role active, waitForConnection returns before its
\* timeout has elapsed only if the status is CONNECTED or FAILED.
C6_EarlyReturnOnlyWhenTerminal ==
    (lastOp = "waitForConnection" /\ wait_applicable(_mode) /\ ticksLeft > 0)
        => _status \in {"CONNECTED", "FAILED"}

\* C7: waitForConnection called while the mode is ACCESS_POINT returns false at
\* once, without a wait on the event group, whatever the timeout.
C7_ApModeReturnsAtOnce ==
    [][ (pc = "idle" /\ _mode = "ACCESS_POINT"
         /\ lastOp' \in {"waitForConnection", "xEventGroupWaitBits"})
            => /\ lastOp' = "waitForConnection"
               /\ ret' = "false"
               /\ pc' = "idle"
               /\ calls' = << >> ]_vars

\* waitForConnection has returned in mode ACCESS_POINT
C7_Witness ==
    /\ lastOp = "waitForConnection"
    /\ _mode = "ACCESS_POINT"
    /\ _initialized
    /\ ret = "false"

\* the notification the observer is due for a handler run that ended in status st
DueNote(st) ==
    IF _eventCallback = "nullptr" THEN << >>
    ELSE << [ callback |-> _eventCallback, status |-> st,
              userData |-> _userCallbackData, at |-> st ] >>

\* C8: a station-disconnected event sets the status DISCONNECTED, makes exactly
\* one connect attempt and notifies a registered observer exactly once with
\* DISCONNECTED; a got-IP event sets the status CONNECTED and notifies it exactly
\* once with CONNECTED; the status passed is the manager's status at that moment.
C8_EventDispatch ==
    /\ (lastOp = "wifiEventHandler" /\ ret = "WIFI_EVENT_STA_DISCONNECTED")
          => /\ _status = "DISCONNECTED"
             /\ CountConnect(calls) = 1
             /\ notes = DueNote("DISCONNECTED")
    /\ (lastOp = "wifiEventHandler" /\ ret = "IP_EVENT_STA_GOT_IP")
          => /\ _status = "CONNECTED"
             /\ notes = DueNote("CONNECTED")
    /\ \A i \in 1..Len(notes) : notes[i].status = notes[i].at

\* a station-disconnected event was handled with an observer registered
C8_Witness ==
    /\ lastOp = "wifiEventHandler"
    /\ ret = "WIFI_EVENT_STA_DISCONNECTED"
    /\ _eventCallback # "nullptr"
    /\ Len(notes) = 1

\* C9: scanNetworks on an idle radio leaves the radio idle in the state it was in
\* before the call, and brings the radio up for the scan each time it is called
\* on the idle radio.
C9_ScanRestoresIdle ==
    [][ (lastOp' = "scanNetworks" /\ _initialized /\ ~hwStarted)
            => /\ ~hwStarted'
               /\ hwMode' = hwMode
               /\ \E i \in 1..Len(calls') : calls'[i] = "esp_wifi_start" ]_vars

\* C10: on a fresh manager configureStation, configureAP, start yield mode BOTH,
\* an access-point configuration whose auth mode is Open exactly when the
\* password is empty and WPA2-PSK otherwise, exactly one connect attempt, and
\* status CONNECTING when start() returns.
C10_EndToEnd ==
    Called(<<"configureStation", "configureAP", "start">>)
        => /\ _mode = "BOTH"
           /\ hwApConfig.authmode = IF _apPassword = EmptyStr THEN "WIFI_AUTH_OPEN"
                                    ELSE "WIFI_AUTH_WPA2_PSK"
           /\ ConnectsIn(trace) = 1
           /\ _status = "CONNECTING"

\* the scenario has run with an empty access-point password
C10_Witness ==
    /\ Called(<<"configureStation", "configureAP", "start">>)
    /\ _apPassword = EmptyStr
    /\ hwApConfig.authmode = "WIFI_AUTH_OPEN"


\* this step runs the one-time setup of init(): it gets as far as creating the
\* default event loop, or is cut short there by ESP_ERROR_CHECK
SetupRuns ==
    /\ ~_initialized
    /\ \/ \E i \in DOMAIN calls' : calls'[i] = "esp_event_loop_create_default"
       \/ lastOp # "construct" /\ lastOp' = "construct"

\* C29: over any sequence of init(), configureStation, configureAP, start and
\* scanNetworks, each one-time setup step (event loop, network stack, event
\* group, interfaces, handler registration) is executed at most once, also after
\* an init() that returned false part-way: once the event loop exists no call
\* runs the setup again.
C29_SetupStepsOnce ==
    [][eventLoopCreated => ~SetupRuns]_vars


\* C31: the status FAILED is never reached; a failed connection shows as the
\* fail bit of the event group, set by the handler while it writes DISCONNECTED.
C31_FailedUnreachable ==
    /\ _status # "FAILED"
    /\ (lastOp = "wifiEventHandler" /\ ret = "WIFI_EVENT_STA_DISCONNECTED") =>
           /\ _status = "DISCONNECTED"
           /\ WIFI_FAIL_BIT \in eventBits

C31_Witness ==
    /\ lastOp = "wifiEventHandler"
    /\ ret = "WIFI_EVENT_STA_DISCONNECTED"
    /\ _status = "DISCONNECTED"
    /\ WIFI_FAIL_BIT \in eventBits


\* the calls remembered since construction include a configureStation
StationConfigured == \E i \in DOMAIN trace : trace[i][1] = "configureStation"

\* C32: the station role is active (mode STATION or BOTH, start() attempting a
\* station connection) only if configureStation has been called; a fresh
\* manager on which only configureAP was called has mode ACCESS_POINT, and its
\* start() makes no connection attempt and leaves the status DISCONNECTED.
C32_StationOnlyIfConfigured ==
    /\ (/\ trace # Overflow
        /\ lastOp = "start"
        /\ ret = "true"
        /\ ~StationConfigured) =>
           /\ CountConnect(calls) = 0
           /\ _status = "DISCONNECTED"
    /\ (trace = << <<"configureAP", "true", 0>> >>) => _mode = "ACCESS_POINT"


\* since construction the application has called nothing but init() and
\* scanNetworks, at least one scan, and every handler run is remembered
OnlyScanned ==
    /\ trace # Overflow
    /\ \A i \in DOMAIN trace : trace[i][1] \in {"init", "scanNetworks", "wifiEventHandler"}
    /\ \E i \in DOMAIN trace : trace[i][1] = "scanNetworks"

\* C33: scanNetworks leaves the status alone: called with the status
\* DISCONNECTED and the radio idle, the status is DISCONNECTED once the call has
\* returned and the events of its transient radio start and stop have been
\* dispatched, and no station connect attempt is left pending.
C33_ScanKeepsStatus ==
    (OnlyScanned /\ eventQueue = << >>) =>
        /\ _status = "DISCONNECTED"
        /\ staLink = "idle"


\* C34: after stop() has returned true and until the next start() the manager
\* makes no station connect attempt and the status stays DISCONNECTED, also when
\* a station-disconnected or station-start event is delivered after the stop.
C34_QuietAfterStop ==
    [][(lastOp = "stop" /\ ret = "true" /\ lastOp' = "wifiEventHandler") =>
          /\ CountConnect(calls') = 0
          /\ _status' = "DISCONNECTED"]_vars


\* a call of waitForConnection made now gets past the mode check to
\* xEventGroupWaitBits
WaitReachesGroup == pc = "idle" /\ wait_applicable(_mode)

\* C35: whenever waitForConnection reaches its wait on the event group, the
\* group has been created by a successful init(); on a fresh manager, whose
\* mode is STATION, the call does not wait on a null event group.
C35_WaitNeedsEventGroup ==
    WaitReachesGroup => (s_wifi_event_group # "nullptr" /\ _initialized)

(***************************************************************************)
(* ESP32_GPIO::GpioManager.                                                *)
(*                                                                         *)
(* The driver: gpio_install_isr_service succeeds or not (ok);              *)
(* gpio_config accepts the request or not (hwOk) and, accepting, sets the  *)
(* direction and enables the pin's interrupt exactly for a trigger other   *)
(* than NONE; gpio_isr_handler_add needs the installed service, arms the   *)
(* handler and enables the interrupt; gpio_get_level reads the pad only    *)
(* if the pin's input is enabled and is 0 otherwise; gpio_reset_pin        *)
(* disables direction and interrupt and keeps the armed handler.           *)
(***************************************************************************)
\* the calls configurePin is given: mode, intr, callback, open_drain
ConfigureInputs ==
    { <<"OUTPUT", "NONE", "nullptr", FALSE>>,
      <<"OUTPUT", "NONE", "nullptr", TRUE>>,
      <<"INPUT", "NONE", "nullptr", FALSE>>,
      <<"INPUT", "RISING", "nullptr", FALSE>>,
      <<"INPUT", "RISING", "cbA", FALSE>>,
      <<"INPUT", "BOTH", "cbB", FALSE>> }

\* the install matters only while the manager is not initialized
InstallOutcomes == IF gpio_initialized THEN {TRUE} ELSE BOOLEAN

\* static_cast<gpio_mode_t>(mode)
gpio_mode_t(mode) ==
    CASE mode = "DISABLED" -> "GPIO_MODE_DISABLE"
      [] mode = "INPUT" -> "GPIO_MODE_INPUT"
      [] mode = "OUTPUT" -> "GPIO_MODE_OUTPUT"

InputEnabled(m) == m \in {"GPIO_MODE_INPUT", "GPIO_MODE_INPUT_OUTPUT_OD"}
OutputModes == {"GPIO_MODE_OUTPUT", "GPIO_MODE_INPUT_OUTPUT_OD"}

\* the level on the pad of pin p when the circuit outside drives it to ext:
\* a push-pull output drives its latch, an open-drain output only drives low
pad(p, ext) ==
    CASE pinMode[p] = "GPIO_MODE_OUTPUT" -> outLatch[p]
      [] pinMode[p] = "GPIO_MODE_INPUT_OUTPUT_OD" /\ outLatch[p] = 0 -> 0
      [] OTHER -> ext

gpio_get_level(p, ext) == IF InputEnabled(pinMode[p]) THEN pad(p, ext) ELSE 0

\* gpio_set_level(pin, level)
gpio_set_level(latch, p, level) ==
    [latch EXCEPT ![p] = IF level # 0 THEN 1 ELSE 0]

\* the part of GpioManager::init() that both init() and configurePin run
init_value(ok) == gpio_initialized \/ ok
init_calls == IF gpio_initialized THEN << >> ELSE <<"gpio_install_isr_service">>
init_history(ok) ==
    /\ installRequests' = Min(installRequests + Len(init_calls), MaxInstallRequests)
    /\ firstInit' = IF firstInit = "none" THEN Bool(init_value(ok)) ELSE firstInit

GpioManager_init(ok) ==
    /\ gpio_initialized' = init_value(ok)
    /\ isrServiceInstalled' = init_value(ok)
    /\ init_history(ok)
    /\ lastOp' = "GpioManager_init"
    /\ args' = << >>
    /\ ret' = Bool(init_value(ok))
    /\ calls' = init_calls
    /\ notes' = << >>
    /\ UNCHANGED <<_configs, pinMode, outLatch, isrHandlers, intrEnabled, resetPins>>

\* the hardware direction configurePin asks for
config_mode(mode, open_drain) ==
    IF open_drain THEN "GPIO_MODE_INPUT_OUTPUT_OD" ELSE gpio_mode_t(mode)

\* configurePin stores the callback and arms the handler
config_registers(intr, cb) == intr # "NONE" /\ cb # "nullptr"

config_table_any(pin, intr, cb, hwOk) ==
    IF hwOk THEN [_configs EXCEPT ![pin] = cb] ELSE _configs

\* the callback table after configurePin, gpio_config having returned hwOk
config_table(pin, intr, cb, hwOk) ==
    IF hwOk /\ config_registers(intr, cb) THEN [_configs EXCEPT ![pin] = cb] ELSE _configs

configurePin_calls(intr, cb, hwOk) ==
    (IF gpio_initialized THEN << >> ELSE <<"gpio_install_isr_service">>)
    \o <<"gpio_config">>
    \o (IF hwOk THEN <<"gpio_set_drive_capability">> ELSE << >>)
    \o (IF hwOk /\ config_registers(intr, cb) THEN <<"gpio_isr_handler_add">> ELSE << >>)

configurePin(pin, in, ok, hwOk) ==
    LET mode == in[1]
        intr == in[2]
        cb == in[3]
        open_drain == in[4]
        installed == init_value(ok)
        arms == hwOk /\ config_registers(intr, cb) /\ installed
    IN  /\ gpio_initialized' = installed
        /\ isrServiceInstalled' = installed
        /\ IF gpio_initialized
             THEN UNCHANGED <<installRequests, firstInit>>
             ELSE init_history(ok)
        /\ pinMode' = IF hwOk THEN [pinMode EXCEPT ![pin] = config_mode(mode, open_drain)]
                      ELSE pinMode
        /\ _configs' = config_table(pin, intr, cb, hwOk)
        /\ resetPins' = IF hwOk /\ config_registers(intr, cb)
                         THEN resetPins \ {pin} ELSE resetPins
        /\ isrHandlers' = IF arms THEN isrHandlers \cup {pin} ELSE isrHandlers
        /\ intrEnabled' = IF ~hwOk THEN intrEnabled
                          ELSE IF intr # "NONE" THEN intrEnabled \cup {pin}
                          ELSE intrEnabled \ {pin}
        /\ lastOp' = "configurePin"
        /\ args' = <<pin, mode, intr, cb, open_drain>>
        /\ ret' = Bool(hwOk)
        /\ calls' = configurePin_calls(intr, cb, hwOk)
        /\ notes' = << >>
        /\ UNCHANGED outLatch

setLevel(pin, level) ==
    /\ outLatch' = gpio_set_level(outLatch, pin, level)
    /\ lastOp' = "setLevel"
    /\ args' = <<pin, level>>
    /\ ret' = "none"
    /\ calls' = <<"gpio_set_level">>
    /\ notes' = << >>
    /\ UNCHANGED <<gpio_initialized, _configs, isrServiceInstalled, pinMode,
                   isrHandlers, intrEnabled, installRequests, firstInit, resetPins>>

getLevel(pin, ext) ==
    /\ lastOp' = "getLevel"
    /\ args' = <<pin>>
    /\ ret' = ToString(gpio_get_level(pin, ext))
    /\ calls' = <<"gpio_get_level">>
    /\ notes' = << >>
    /\ UNCHANGED gpioVars

\* the level toggle writes, having read lvl
toggle_level(lvl) == IF lvl = 0 THEN 1 ELSE 0

toggle(pin, ext) ==
    /\ outLatch' = gpio_set_level(outLatch, pin, toggle_level(gpio_get_level(pin, ext)))
    /\ lastOp' = "toggle"
    /\ args' = <<pin>>
    /\ ret' = "none"
    /\ calls' = <<"gpio_get_level", "gpio_set_level">>
    /\ notes' = << >>
    /\ UNCHANGED <<gpio_initialized, _configs, isrServiceInstalled, pinMode,
                   isrHandlers, intrEnabled, installRequests, firstInit, resetPins>>

resetPin(pin) ==
    /\ pinMode' = [pinMode EXCEPT ![pin] = "GPIO_MODE_DISABLE"]
    /\ intrEnabled' = intrEnabled \ {pin}
    /\ resetPins' = IF _configs[pin] # "nullptr" THEN resetPins \cup {pin} ELSE resetPins
    /\ lastOp' = "resetPin"
    /\ args' = <<pin>>
    /\ ret' = "none"
    /\ calls' = <<"gpio_reset_pin">>
    /\ notes' = << >>
    /\ UNCHANGED <<gpio_initialized, _configs, isrServiceInstalled, outLatch,
                   isrHandlers, installRequests, firstInit>>

setDriveStrength(pin) ==
    /\ lastOp' = "setDriveStrength"
    /\ args' = <<pin>>
    /\ ret' = "none"
    /\ calls' = <<"gpio_set_drive_capability">>
    /\ notes' = << >>
    /\ UNCHANGED gpioVars

isrHandler_notes_twice(pin, level) ==
    IF _configs[pin] # "nullptr"
    THEN << [cb |-> _configs[pin], pin |-> pin, level |-> level],
            [cb |-> _configs[pin], pin |-> pin, level |-> level] >>
    ELSE << >>

\* the callbacks GpioManager::isrHandler invokes for pin at level
isrHandler_notes(pin, level) ==
    IF _configs[pin] # "nullptr"
    THEN << [cb |-> _configs[pin], pin |-> pin, level |-> level] >>
    ELSE << >>

\* the interrupt service runs the armed handler of a pin whose interrupt fired
isrHandler(pin, ext) ==
    /\ isrServiceInstalled
    /\ pin \in isrHandlers \cap intrEnabled
    /\ lastOp' = "isrHandler"
    /\ args' = <<pin, ext>>
    /\ ret' = "none"
    /\ calls' = <<"gpio_get_level">>
    /\ notes' = isrHandler_notes(pin, gpio_get_level(pin, ext))
    /\ UNCHANGED gpioVars

GpioNext ==
    \/ \E ok \in InstallOutcomes :
          GpioManager_init(ok) /\ UNCHANGED <<wifiVars, adcVars, mqttVars>>
    \/ \E pin \in Pins, in \in ConfigureInputs, ok \in InstallOutcomes, hwOk \in BOOLEAN :
          configurePin(pin, in, ok, hwOk) /\ UNCHANGED <<wifiVars, adcVars, mqttVars>>
    \/ \E pin \in Pins, level \in Levels :
          setLevel(pin, level) /\ UNCHANGED <<wifiVars, adcVars, mqttVars>>
    \/ \E pin \in Pins, ext \in Levels :
          getLevel(pin, ext) /\ UNCHANGED <<wifiVars, adcVars, mqttVars>>
    \/ \E pin \in Pins, ext \in Levels :
          toggle(pin, ext) /\ UNCHANGED <<wifiVars, adcVars, mqttVars>>
    \/ \E pin \in Pins : resetPin(pin) /\ UNCHANGED <<wifiVars, adcVars, mqttVars>>
    \/ \E pin \in Pins : setDriveStrength(pin) /\ UNCHANGED <<wifiVars, adcVars, mqttVars>>
    \/ \E pin \in Pins, ext \in Levels :
          isrHandler(pin, ext) /\ UNCHANGED <<wifiVars, adcVars, mqttVars>>

SpecGpio == Init /\ [][GpioNext]_vars

(***************************************************************************)
(* Properties of the GpioManager.                                          *)
(***************************************************************************)
\* the last step was configurePin(p, ...) asking for no trigger and no callback
NullConfigure(p) ==
    lastOp = "configurePin" /\ args[1] = p /\ args[3] = "NONE" /\ args[4] = "nullptr"

\* C11: once configurePin(p, mode, ..., intr = NONE, callback = null) has
\* returned, whatever happened on p before, no callback is registered for p, and
\* an interrupt dispatched for p after it invokes no callback.
C11_NullConfigureUnregisters ==
    /\ [](\A p \in Pins : NullConfigure(p) => _configs[p] = "nullptr")
    /\ [][\A p \in Pins :
            (NullConfigure(p) /\ lastOp' = "isrHandler" /\ args'[1] = p)
               => notes' = << >>]_vars

\* the last step was a configurePin whose request gpio_config rejected
Rejected ==
    lastOp = "configurePin" /\ calls[Len(calls)] = "gpio_config"

\* C12: when the hardware layer rejects the configuration request, configurePin
\* returns false and no callback is registered for the pin afterwards, whatever
\* was registered for it before the call.
C12_RejectedLeavesNoCallback ==
    Rejected => ret = "false" /\ _configs[args[1]] = "nullptr"

\* C13: on a configured output pin, with nothing else writing the pin, getLevel
\* after toggle returns the complement of what getLevel returned before it.
C13_ToggleComplements ==
    [][\A p \in Pins, ext \in Levels :
          (lastOp' = "toggle" /\ args'[1] = p /\ pinMode[p] \in OutputModes)
             => gpio_get_level(p, ext)' = 1 - gpio_get_level(p, ext)]_vars

\* C14: over any sequence of init() calls and auto-initializing configurePin
\* calls the interrupt service install is requested at most once, and every
\* init() after the first returns what the first returned.
C14_InstallRequestedOnce ==
    /\ installRequests <= 1
    /\ (lastOp = "GpioManager_init" => ret = firstInit)

\* this step is a successful configurePin of pin p with a trigger and a callback
Registering(p) ==
    /\ lastOp' = "configurePin"
    /\ ret' = "true"
    /\ args'[1] = p
    /\ args'[3] # "NONE"
    /\ args'[4] # "nullptr"

\* C27: the callback entry of pin p is written only by a successful
\* configurePin(p, ...) with a trigger other than NONE and a non-null callback,
\* which replaces the entry; every other operation, resetPin(p) included, leaves
\* it alone, so an interrupt for p after resetPin(p) still invokes the callback
\* registered before.
C27_CallbackTableFrame ==
    [][/\ \A p \in Pins :
             _configs'[p] = IF Registering(p) THEN args'[4] ELSE _configs[p]
       /\ (lastOp' = "isrHandler" /\ args'[1] \in resetPins) =>
             /\ _configs[args'[1]] # "nullptr"
             /\ Len(notes') = 1
             /\ notes'[1].cb = _configs[args'[1]]]_vars

C27_Witness ==
    /\ lastOp = "isrHandler"
    /\ args[1] \in resetPins
    /\ notes # << >>

\* C28: an interrupt delivered for pin p invokes the callback registered for p,
\* once, with p and the level of p read at that moment, and no callback of
\* another pin; with no callback registered it invokes nothing.
C28_DispatchExact ==
    (lastOp = "isrHandler") =>
        notes = IF _configs[args[1]] # "nullptr"
                THEN << [cb |-> _configs[args[1]], pin |-> args[1],
                         level |-> gpio_get_level(args[1], args[2])] >>
                ELSE << >>

C28_Witness ==
    /\ lastOp = "isrHandler"
    /\ notes = << [cb |-> "cbA", pin |-> 4, level |-> 1] >>
    /\ _configs[5] = "cbB"


\* C38: configurePin stores a callback and arms a pin's handler only with the
\* interrupt service ready (_initialized true); when the init() inside
\* configurePin fails, no callback is stored and no handler is armed.
C38_RegistersOnlyWhenReady ==
    \A p \in Pins :
        (_configs[p] # "nullptr" \/ p \in isrHandlers) => gpio_initialized

(***************************************************************************)
(* ESP32_ADC::ADCManager.                                                  *)
(*                                                                         *)
(* The driver: a create call writes the caller's handle only when it       *)
(* succeeds; adc_continuous_start is rejected for a handle that is         *)
(* already sampling and adc_continuous_stop for one that is not; a         *)
(* conversion-done event comes from a sampling handle whose trampoline is  *)
(* registered.                                                             *)
(***************************************************************************)
AdcCallbacks == {"nullptr", "cbA", "cbB"}
Batches == {"batch1", "batch2"}
\* the channels and the attenuation configContinuous is given
ContinuousChannels == <<0, 1>>
ContinuousAtten == "ADC_ATTEN_DB_12"

\* how far configOneShot gets: all steps succeed, or the first failing step
OneShotOutcomes == {"ok", "no_unit", "no_channel", "no_cali"}
ContinuousOutcomes == {"ok", "no_handle", "no_config", "no_register"}

configOneShot_ret(o) ==
    CASE o = "no_unit" -> "ESP_ERR_NOT_FOUND"
      [] o = "no_channel" -> "ESP_ERR_INVALID_ARG"
      [] OTHER -> "ESP_OK"

configOneShot_calls(o) ==
    <<"adc_oneshot_new_unit">>
    \o (IF o = "no_unit" THEN << >> ELSE <<"adc_oneshot_config_channel">>)
    \o (IF o \in {"no_unit", "no_channel"} THEN << >>
        ELSE <<"adc_cali_create_scheme_line_fitting">>)

configOneShot(o) ==
    /\ one_shot_unit_handle' = IF o = "no_unit" THEN one_shot_unit_handle ELSE 1
    /\ cali_handle' = CASE o = "ok" -> 1
                        [] o = "no_cali" -> 0
                        [] OTHER -> cali_handle
    /\ oneShotConfigured' = (oneShotConfigured \/ configOneShot_ret(o) = "ESP_OK")
    /\ out' = << >>
    /\ lastOp' = "configOneShot"
    /\ args' = << >>
    /\ ret' = configOneShot_ret(o)
    /\ calls' = configOneShot_calls(o)
    /\ notes' = << >>
    /\ UNCHANGED <<continuous_handle, user_callback, continuous_running,
                   channel_atten_map, handlesCreated, armedHandles, startedHandles>>

\* readOneShot, the hardware read succeeding or not (hwOk)
readOneShot_ret(hwOk) ==
    IF one_shot_unit_handle = 0 THEN "ESP_ERR_INVALID_STATE"
    ELSE IF hwOk THEN "ESP_OK" ELSE "ESP_ERR_TIMEOUT"

readOneShot_calls == IF one_shot_unit_handle = 0 THEN << >> ELSE <<"adc_oneshot_read">>

readOneShot(raw, hwOk) ==
    /\ out' = IF readOneShot_ret(hwOk) = "ESP_OK" THEN <<raw>> ELSE << >>
    /\ lastOp' = "readOneShot"
    /\ args' = <<raw, hwOk>>
    /\ ret' = readOneShot_ret(hwOk)
    /\ calls' = readOneShot_calls
    /\ notes' = << >>
    /\ UNCHANGED <<one_shot_unit_handle, continuous_handle, cali_handle, user_callback,
                   continuous_running, channel_atten_map, handlesCreated, armedHandles,
                   startedHandles, oneShotConfigured>>

\* the line-fitting scheme: millivolts for a raw sample
adc_cali_raw_to_voltage(raw) == (raw * 3) \div 4 + 142

voltage_converted(raw) == adc_cali_raw_to_voltage(raw)

\* what readOneShotVoltage writes for the sample raw
voltage_out(raw) == IF cali_handle # 0 THEN adc_cali_raw_to_voltage(raw) ELSE raw

readOneShotVoltage(raw, hwOk) ==
    /\ out' = IF readOneShot_ret(hwOk) = "ESP_OK" THEN <<voltage_out(raw)>> ELSE << >>
    /\ lastOp' = "readOneShotVoltage"
    /\ args' = <<raw, hwOk>>
    /\ ret' = readOneShot_ret(hwOk)
    /\ calls' = readOneShot_calls
                \o (IF readOneShot_ret(hwOk) = "ESP_OK" /\ cali_handle # 0
                    THEN <<"adc_cali_raw_to_voltage">> ELSE << >>)
    /\ notes' = << >>
    /\ UNCHANGED <<one_shot_unit_handle, continuous_handle, cali_handle, user_callback,
                   continuous_running, channel_atten_map, handlesCreated, armedHandles,
                   startedHandles, oneShotConfigured>>

\* adc_continuous_new_handle succeeds while the driver has memory
NewHandle(o) == o # "no_handle" /\ handlesCreated < MaxHandles

configContinuous_ret(o) ==
    CASE ~NewHandle(o) -> "ESP_ERR_NO_MEM"
      [] o = "no_config" -> "ESP_ERR_INVALID_ARG"
      [] OTHER -> "ESP_OK"

configContinuous_calls(o) ==
    <<"adc_continuous_new_handle">>
    \o (IF NewHandle(o) THEN <<"adc_continuous_config">> ELSE << >>)
    \o (IF NewHandle(o) /\ o # "no_config"
        THEN <<"adc_continuous_register_event_callbacks">> ELSE << >>)

configContinuous(o) ==
    /\ continuous_handle' = IF NewHandle(o) THEN handlesCreated + 1 ELSE continuous_handle
    /\ handlesCreated' = IF NewHandle(o) THEN handlesCreated + 1 ELSE handlesCreated
    /\ channel_atten_map' =
          IF NewHandle(o)
          THEN [i \in 1..Len(ContinuousChannels) |-> ContinuousAtten]
          ELSE channel_atten_map
    /\ armedHandles' = IF NewHandle(o) /\ o = "ok"
                       THEN armedHandles \cup {handlesCreated + 1}
                       ELSE armedHandles
    /\ out' = << >>
    /\ lastOp' = "configContinuous"
    /\ args' = << >>
    /\ ret' = configContinuous_ret(o)
    /\ calls' = configContinuous_calls(o)
    /\ notes' = << >>
    /\ UNCHANGED <<one_shot_unit_handle, cali_handle, user_callback, continuous_running,
                   startedHandles, oneShotConfigured>>

\* adc_continuous_start(handle), adc_continuous_stop(handle)
adc_continuous_start(hwOk) ==
    IF hwOk /\ continuous_handle \notin startedHandles
    THEN "ESP_OK" ELSE "ESP_ERR_INVALID_STATE"
adc_continuous_stop(hwOk) ==
    IF hwOk /\ continuous_handle \in startedHandles
    THEN "ESP_OK" ELSE "ESP_ERR_INVALID_STATE"

start_running_always(r) == TRUE

\* continuous_running after startContinuous, the driver having returned r
start_running(r) == IF r = "ESP_OK" THEN TRUE ELSE continuous_running

\* continuous_running after stopContinuous, the driver having returned r
stop_running(r) == IF r = "ESP_OK" THEN FALSE ELSE continuous_running

startContinuous(hwOk) ==
    /\ IF continuous_handle = 0
       THEN /\ ret' = "ESP_ERR_INVALID_STATE"
            /\ calls' = << >>
            /\ UNCHANGED <<continuous_running, startedHandles>>
       ELSE /\ ret' = adc_continuous_start(hwOk)
            /\ calls' = <<"adc_continuous_start">>
            /\ continuous_running' = start_running(adc_continuous_start(hwOk))
            /\ startedHandles' = IF adc_continuous_start(hwOk) = "ESP_OK"
                                 THEN startedHandles \cup {continuous_handle}
                                 ELSE startedHandles
    /\ out' = << >>
    /\ lastOp' = "startContinuous"
    /\ args' = << >>
    /\ notes' = << >>
    /\ UNCHANGED <<one_shot_unit_handle, continuous_handle, cali_handle, user_callback,
                   channel_atten_map, handlesCreated, armedHandles, oneShotConfigured>>

stopContinuous(hwOk) ==
    /\ IF continuous_handle = 0
       THEN /\ ret' = "ESP_ERR_INVALID_STATE"
            /\ calls' = << >>
            /\ UNCHANGED <<continuous_running, startedHandles>>
       ELSE /\ ret' = adc_continuous_stop(hwOk)
            /\ calls' = <<"adc_continuous_stop">>
            /\ continuous_running' = stop_running(adc_continuous_stop(hwOk))
            /\ startedHandles' = IF adc_continuous_stop(hwOk) = "ESP_OK"
                                 THEN startedHandles \ {continuous_handle}
                                 ELSE startedHandles
    /\ out' = << >>
    /\ lastOp' = "stopContinuous"
    /\ args' = << >>
    /\ notes' = << >>
    /\ UNCHANGED <<one_shot_unit_handle, continuous_handle, cali_handle, user_callback,
                   channel_atten_map, handlesCreated, armedHandles, oneShotConfigured>>

registerCallback(cb) ==
    /\ user_callback' = cb
    /\ out' = << >>
    /\ lastOp' = "registerCallback"
    /\ args' = <<cb>>
    /\ ret' = "none"
    /\ calls' = << >>
    /\ notes' = << >>
    /\ UNCHANGED <<one_shot_unit_handle, continuous_handle, cali_handle,
                   continuous_running, channel_atten_map, handlesCreated, armedHandles,
                   startedHandles, oneShotConfigured>>

continuousCallback_notes_twice(cb, batch) ==
    IF cb # "nullptr"
    THEN << [cb |-> cb, data |-> batch], [cb |-> cb, data |-> batch] >>
    ELSE << >>

\* the observer invocations of the trampoline for one event
continuousCallback_notes(cb, batch) ==
    IF cb # "nullptr" THEN << [cb |-> cb, data |-> batch] >> ELSE << >>

\* the driver calls the trampoline of a sampling handle with user_data = this
continuousCallback(h, batch) ==
    /\ h \in armedHandles \cap startedHandles
    /\ lastOp' = "continuousCallback"
    /\ args' = <<batch>>
    /\ ret' = Bool(user_callback # "nullptr")
    /\ calls' = << >>
    /\ notes' = continuousCallback_notes(user_callback, batch)
    /\ out' = << >>
    /\ UNCHANGED <<one_shot_unit_handle, continuous_handle, cali_handle, user_callback,
                   continuous_running, channel_atten_map, handlesCreated, armedHandles,
                   startedHandles, oneShotConfigured>>

AdcNext ==
    \/ \E o \in OneShotOutcomes :
          configOneShot(o) /\ UNCHANGED <<wifiVars, gpioVars, mqttVars>>
    \/ \E raw \in 0..MaxRaw, hwOk \in BOOLEAN :
          readOneShot(raw, hwOk) /\ UNCHANGED <<wifiVars, gpioVars, mqttVars>>
    \/ \E raw \in 0..MaxRaw, hwOk \in BOOLEAN :
          readOneShotVoltage(raw, hwOk) /\ UNCHANGED <<wifiVars, gpioVars, mqttVars>>
    \/ \E o \in ContinuousOutcomes :
          configContinuous(o) /\ UNCHANGED <<wifiVars, gpioVars, mqttVars>>
    \/ \E hwOk \in BOOLEAN :
          startContinuous(hwOk) /\ UNCHANGED <<wifiVars, gpioVars, mqttVars>>
    \/ \E hwOk \in BOOLEAN :
          stopContinuous(hwOk) /\ UNCHANGED <<wifiVars, gpioVars, mqttVars>>
    \/ \E cb \in AdcCallbacks :
          registerCallback(cb) /\ UNCHANGED <<wifiVars, gpioVars, mqttVars>>
    \/ \E h \in 1..MaxHandles, batch \in Batches :
          continuousCallback(h, batch) /\ UNCHANGED <<wifiVars, gpioVars, mqttVars>>

SpecAdc == Init /\ [][AdcNext]_vars

(***************************************************************************)
(* Properties of the ADCManager.                                           *)
(***************************************************************************)
\* C15: while no configOneShot has returned success, readOneShot returns
\* ESP_ERR_INVALID_STATE and makes no hardware read.
C15_UnconfiguredReadRejected ==
    (lastOp = "readOneShot" /\ ~oneShotConfigured)
        => ret = "ESP_ERR_INVALID_STATE" /\ calls = << >>

\* C16: readOneShotVoltage returns the error of a failing readOneShot and writes
\* nothing; without a calibration scheme it returns success and writes the raw
\* sample of its hardware read.
C16_VoltagePassthrough ==
    lastOp = "readOneShotVoltage" =>
        /\ readOneShot_ret(args[2]) # "ESP_OK" =>
              ret = readOneShot_ret(args[2]) /\ out = << >>
        /\ (readOneShot_ret(args[2]) = "ESP_OK" /\ cali_handle = 0) =>
              ret = "ESP_OK" /\ out = <<args[1]>>

C16_Witness ==
    /\ lastOp = "readOneShotVoltage"
    /\ oneShotConfigured /\ cali_handle = 0
    /\ ret = "ESP_OK" /\ args[1] = MaxRaw /\ out = <<MaxRaw>>

C18_RunningFlag ==
    [][/\ (lastOp' \in {"startContinuous", "stopContinuous"} /\ continuous_handle = 0)
            => /\ ret' = "ESP_ERR_INVALID_STATE"
               /\ calls' = << >>
               /\ continuous_running' = continuous_running
       /\ (lastOp' = "startContinuous" /\ continuous_handle # 0)
            => continuous_running' = IF ret' = "ESP_OK" THEN TRUE ELSE continuous_running
       /\ (lastOp' = "stopContinuous" /\ continuous_handle # 0)
            => continuous_running' = IF ret' = "ESP_OK" THEN FALSE ELSE continuous_running
      ]_vars

C18_Witness ==
    /\ lastOp = "stopContinuous"
    /\ continuous_handle # 0
    /\ ret = "ESP_OK"
    /\ ~continuous_running


\* the continuous handles created and not deleted: only the destructor
\* deletes one
LiveHandles == 1..handlesCreated

\* C40: continuous_running is true only if the continuous handle the manager
\* now stores has been started and not stopped since, also after a
\* configContinuous issued while sampling runs, and at most one continuous
\* handle created by the manager is live at any time.
C40_RunningMeansStarted ==
    /\ continuous_running => continuous_handle \in startedHandles
    /\ Cardinality(LiveHandles) <= 1

(***************************************************************************)
(* ESP32_MQTT::MqttClient.                                                 *)
(*                                                                         *)
(* The library: esp_mqtt_client_init copies the configuration it is given  *)
(* into the client it creates, or returns null; esp_mqtt_client_start is   *)
(* rejected for a client whose task runs and esp_mqtt_client_stop for one  *)
(* whose task does not; events come from clients whose task runs.  A       *)
(* client is 0 (nullptr) or the number of the library object.              *)
(***************************************************************************)
MqttStatuses == {"DISCONNECTED", "CONNECTING", "CONNECTED", "ERROR"}
MqttEvents == {"MQTT_EVENT_BEFORE_CONNECT", "MQTT_EVENT_CONNECTED",
               "MQTT_EVENT_DISCONNECTED", "MQTT_EVENT_SUBSCRIBED",
               "MQTT_EVENT_UNSUBSCRIBED", "MQTT_EVENT_PUBLISHED", "MQTT_EVENT_DATA",
               "MQTT_EVENT_ERROR", "MQTT_EVENT_DELETED"}
\* configure is given: uri, clientId, cleanSession
SessionInputs == { <<"ws://a", "idA", TRUE>>, <<"ws://b", "idB", FALSE>> }
\* setWill is given: topic, payload, qos, retain
WillInputs == { <<"lwt/topic", "bye", 1, TRUE>>,
                <<"lwt/other", "gone", 0, FALSE>>,
                <<"", "bye", 1, TRUE>> }
MqttCallbackInputs == { <<"nullptr", "nullptr">>, <<"cb1", "data1">> }
\* what the library returns for a publish, subscribe or unsubscribe
MsgIds == {-1, 1}

StoredWill == <<_willTopic, _willPayload, _willQos, _willRetain>>
NoWill == <<"", "", 0, FALSE>>

configure_will_always == StoredWill

\* the last-will fields configure puts into the request
configure_will == IF _willTopic # "" THEN StoredWill ELSE NoWill

\* the request configure builds in _config
configure_config(in) ==
    [ uri |-> in[1], client_id |-> in[2], disable_clean_session |-> in[3],
      lwt_topic |-> configure_will[1], lwt_msg |-> configure_will[2],
      lwt_qos |-> configure_will[3], lwt_retain |-> configure_will[4] ]

\* esp_mqtt_client_init returns a client
Created(initOk) == initOk /\ clientsCreated < MaxClients

configure(in, initOk) ==
    /\ _brokerUri' = in[1]
    /\ _clientId' = in[2]
    /\ _config' = configure_config(in)
    /\ _client' = IF Created(initOk) THEN clientsCreated + 1 ELSE 0
    /\ clientsCreated' = IF Created(initOk) THEN clientsCreated + 1 ELSE clientsCreated
    /\ session' = IF Created(initOk) THEN configure_config(in) ELSE session
    /\ mqtt_status' = IF Created(initOk) THEN "DISCONNECTED" ELSE "ERROR"
    /\ configured' = (configured \/ Created(initOk))
    /\ lastOp' = "configure"
    /\ args' = in
    /\ ret' = Bool(Created(initOk))
    /\ calls' = <<"esp_mqtt_client_init">>
                \o (IF Created(initOk) THEN <<"esp_mqtt_client_register_event">> ELSE << >>)
    /\ notes' = << >>
    /\ UNCHANGED <<_userCallback, _userData, willVars, startedClients>>

setWill(w) ==
    /\ _willTopic' = w[1]
    /\ _willPayload' = w[2]
    /\ _willQos' = w[3]
    /\ _willRetain' = w[4]
    /\ lastOp' = "setWill"
    /\ args' = w
    /\ ret' = "none"
    /\ calls' = << >>
    /\ notes' = << >>
    /\ UNCHANGED <<_client, _config, mqtt_status, _userCallback, _userData, _brokerUri,
                   _clientId, clientsCreated, session, startedClients, configured>>

\* esp_mqtt_client_start(_client), esp_mqtt_client_stop(_client)
esp_mqtt_client_start(hwOk) == hwOk /\ _client \notin startedClients
esp_mqtt_client_stop(hwOk) == hwOk /\ _client \in startedClients

connect_status_optimistic(ok) == "CONNECTING"

\* the status connect() leaves, by the result of the start
connect_status(ok) == IF ok THEN "CONNECTING" ELSE "ERROR"

connect(hwOk) ==
    /\ IF _client = 0
       THEN /\ ret' = "false"
            /\ calls' = << >>
            /\ UNCHANGED <<mqtt_status, startedClients>>
       ELSE /\ ret' = Bool(esp_mqtt_client_start(hwOk))
            /\ calls' = <<"esp_mqtt_client_start">>
            /\ mqtt_status' = connect_status(esp_mqtt_client_start(hwOk))
            /\ startedClients' = IF esp_mqtt_client_start(hwOk)
                                 THEN startedClients \cup {_client} ELSE startedClients
    /\ lastOp' = "connect"
    /\ args' = << >>
    /\ notes' = << >>
    /\ UNCHANGED <<_client, _config, _userCallback, _userData, _brokerUri, _clientId,
                   willVars, clientsCreated, session, configured>>

disconnect(hwOk) ==
    /\ IF _client = 0
       THEN /\ ret' = "false"
            /\ calls' = << >>
            /\ UNCHANGED <<mqtt_status, startedClients>>
       ELSE /\ ret' = Bool(esp_mqtt_client_stop(hwOk))
            /\ calls' = <<"esp_mqtt_client_stop">>
            /\ mqtt_status' = IF esp_mqtt_client_stop(hwOk) THEN "DISCONNECTED"
                              ELSE mqtt_status
            /\ startedClients' = IF esp_mqtt_client_stop(hwOk)
                                 THEN startedClients \ {_client} ELSE startedClients
    /\ lastOp' = "disconnect"
    /\ args' = << >>
    /\ notes' = << >>
    /\ UNCHANGED <<_client, _config, _userCallback, _userData, _brokerUri, _clientId,
                   willVars, clientsCreated, session, configured>>

forward_calls_always(fn) == <<fn>>

\* publish, subscribe and unsubscribe hand the call to the library function fn
\* only with a client; id is what the library returns
forward_calls(fn) == IF _client = 0 THEN << >> ELSE <<fn>>
forward_ret(id) == IF _client = 0 THEN -1 ELSE id

forward(op, fn, id) ==
    /\ lastOp' = op
    /\ args' = << >>
    /\ ret' = ToString(forward_ret(id))
    /\ calls' = forward_calls(fn)
    /\ notes' = << >>
    /\ UNCHANGED mqttVars

publish(id) == forward("publish", "esp_mqtt_client_publish", id)
publish_data(id) == forward("publish_data", "esp_mqtt_client_publish", id)
subscribe(id) == forward("subscribe", "esp_mqtt_client_subscribe_single", id)
unsubscribe(id) == forward("unsubscribe", "esp_mqtt_client_unsubscribe", id)

MqttClient_setEventCallback(cb) ==
    /\ _userCallback' = cb[1]
    /\ _userData' = cb[2]
    /\ lastOp' = "setEventCallback"
    /\ args' = cb
    /\ ret' = "none"
    /\ calls' = << >>
    /\ notes' = << >>
    /\ UNCHANGED <<_client, _config, mqtt_status, _brokerUri, _clientId, willVars,
                   clientsCreated, session, startedClients, configured>>

eventHandlerCb_status_on_data(e, st) ==
    CASE e = "MQTT_EVENT_BEFORE_CONNECT" -> "CONNECTING"
      [] e \in {"MQTT_EVENT_CONNECTED", "MQTT_EVENT_DATA"} -> "CONNECTED"
      [] e = "MQTT_EVENT_DISCONNECTED" -> "DISCONNECTED"
      [] e = "MQTT_EVENT_ERROR" -> "ERROR"
      [] OTHER -> st

\* the status after the switch of MqttClient::eventHandlerCb
eventHandlerCb_status(e, st) ==
    CASE e = "MQTT_EVENT_BEFORE_CONNECT" -> "CONNECTING"
      [] e = "MQTT_EVENT_CONNECTED" -> "CONNECTED"
      [] e = "MQTT_EVENT_DISCONNECTED" -> "DISCONNECTED"
      [] e = "MQTT_EVENT_ERROR" -> "ERROR"
      [] OTHER -> st

eventHandlerCb_observed_early(e, st) == st

\* the status getStatus() returns while the observer runs: the observer is called
\* after the switch
eventHandlerCb_observed(e, st) == eventHandlerCb_status(e, st)

eventHandlerCb_notes_deferred(e, st) ==
    IF _userCallback # "nullptr" /\ e # "MQTT_EVENT_DATA"
    THEN << [cb |-> _userCallback, data |-> _userData, event |-> e, status |-> st] >>
    ELSE << >>

\* the observer invocation after the switch, with the status it can read
eventHandlerCb_notes(e, st) ==
    IF _userCallback # "nullptr"
    THEN << [cb |-> _userCallback, data |-> _userData, event |-> e, status |-> st] >>
    ELSE << >>

\* the library delivers event e of client c, registered with arg = this
eventHandlerCb(c, e) ==
    /\ c \in startedClients
    /\ mqtt_status' = eventHandlerCb_status(e, mqtt_status)
    /\ lastOp' = "eventHandlerCb"
    /\ args' = <<e>>
    /\ ret' = "none"
    /\ calls' = << >>
    /\ notes' = eventHandlerCb_notes(e, eventHandlerCb_observed(e, mqtt_status))
    /\ UNCHANGED <<_client, _config, _userCallback, _userData, _brokerUri, _clientId,
                   willVars, clientsCreated, session, startedClients, configured>>

MqttNext ==
    \/ \E in \in SessionInputs, initOk \in BOOLEAN :
          configure(in, initOk) /\ UNCHANGED <<wifiVars, gpioVars, adcVars>>
    \/ \E w \in WillInputs : setWill(w) /\ UNCHANGED <<wifiVars, gpioVars, adcVars>>
    \/ \E hwOk \in BOOLEAN : connect(hwOk) /\ UNCHANGED <<wifiVars, gpioVars, adcVars>>
    \/ \E hwOk \in BOOLEAN : disconnect(hwOk) /\ UNCHANGED <<wifiVars, gpioVars, adcVars>>
    \/ \E id \in MsgIds : publish(id) /\ UNCHANGED <<wifiVars, gpioVars, adcVars>>
    \/ \E id \in MsgIds : publish_data(id) /\ UNCHANGED <<wifiVars, gpioVars, adcVars>>
    \/ \E id \in MsgIds : subscribe(id) /\ UNCHANGED <<wifiVars, gpioVars, adcVars>>
    \/ \E id \in MsgIds : unsubscribe(id) /\ UNCHANGED <<wifiVars, gpioVars, adcVars>>
    \/ \E cb \in MqttCallbackInputs :
          MqttClient_setEventCallback(cb) /\ UNCHANGED <<wifiVars, gpioVars, adcVars>>
    \/ \E c \in 1..MaxClients, e \in MqttEvents :
          eventHandlerCb(c, e) /\ UNCHANGED <<wifiVars, gpioVars, adcVars>>

SpecMqtt == Init /\ [][MqttNext]_vars

(***************************************************************************)
(* Properties of the MqttClient.                                           *)
(***************************************************************************)
\* the last-will fields of a client configuration
WillOf(c) == <<c.lwt_topic, c.lwt_msg, c.lwt_qos, c.lwt_retain>>

C20_UnconfiguredCallsRejected ==
    [][(lastOp' \in {"publish", "publish_data", "subscribe", "unsubscribe"} /\ ~configured)
          => /\ ret' = "-1"
             /\ calls' = << >>
             /\ UNCHANGED <<mqtt_status, _userCallback, _userData, _brokerUri, _clientId,
                            willVars>>]_vars

C20_Witness ==
    /\ lastOp = "subscribe"
    /\ ~configured
    /\ mqtt_status = "ERROR"
    /\ ret = "-1"

\* C21: in the event trampoline BeforeConnect sets the status to CONNECTING,
\* Connected to CONNECTED, Disconnected to DISCONNECTED and Error to ERROR;
\* Subscribed, Unsubscribed, Published, Data and any other event leave it alone.
C21_EventStatusMap ==
    [][lastOp' = "eventHandlerCb" =>
          mqtt_status' =
             CASE args'[1] = "MQTT_EVENT_BEFORE_CONNECT" -> "CONNECTING"
               [] args'[1] = "MQTT_EVENT_CONNECTED" -> "CONNECTED"
               [] args'[1] = "MQTT_EVENT_DISCONNECTED" -> "DISCONNECTED"
               [] args'[1] = "MQTT_EVENT_ERROR" -> "ERROR"
               [] OTHER -> mqtt_status]_vars

C21_Witness ==
    /\ lastOp = "eventHandlerCb"
    /\ args[1] = "MQTT_EVENT_DATA"
    /\ mqtt_status = "CONNECTING"

\* the status the trampoline maps event e to, if it maps it
MappedStatus(e) ==
    CASE e = "MQTT_EVENT_BEFORE_CONNECT" -> {"CONNECTING"}
      [] e = "MQTT_EVENT_CONNECTED" -> {"CONNECTED"}
      [] e = "MQTT_EVENT_DISCONNECTED" -> {"DISCONNECTED"}
      [] e = "MQTT_EVENT_ERROR" -> {"ERROR"}
      [] OTHER -> MqttStatuses

\* C22: for every event kind delivered while an observer is registered, the
\* observer is invoked exactly once for that event, after the status update, so
\* that it reads the status the event maps to.
C22_ObserverAfterStatus ==
    (lastOp = "eventHandlerCb" /\ _userCallback # "nullptr") =>
        /\ notes = << [cb |-> _userCallback, data |-> _userData,
                       event |-> args[1], status |-> mqtt_status] >>
        /\ notes[1].status \in MappedStatus(args[1])

C22_Witness ==
    /\ lastOp = "eventHandlerCb"
    /\ args[1] = "MQTT_EVENT_CONNECTED"
    /\ notes = << [cb |-> "cb1", data |-> "data1",
                   event |-> "MQTT_EVENT_CONNECTED", status |-> "CONNECTED"] >>

\* the status edges of the connection life cycle
StatusEdges ==
    { <<"DISCONNECTED", "CONNECTING">>, <<"CONNECTING", "CONNECTED">>,
      <<"CONNECTING", "ERROR">>, <<"CONNECTED", "DISCONNECTED">>,
      <<"ERROR", "DISCONNECTED">> }

\* C23: over any sequence of configure, connect, disconnect and broker events,
\* every change of the status is one of the edges Disconnected->Connecting,
\* Connecting->Connected, Connecting->Error, Connected->Disconnected or
\* Error->Disconnected.
C23_StatusEdges ==
    [][mqtt_status' # mqtt_status => <<mqtt_status, mqtt_status'>> \in StatusEdges]_vars

\* C24: a configure call that returns false leaves the status, the client
\* handle, the stored broker URI and client id and the session request as they
\* were before the call.
C24_FailedConfigureKeepsState ==
    [][(lastOp' = "configure" /\ ret' = "false") =>
          UNCHANGED <<mqtt_status, _client, _brokerUri, _clientId, _config>>]_vars

\* C30: configure with cleanSession = true produces a request that asks the
\* broker for a clean session, and with cleanSession = false a persistent one.
C30_CleanSessionRequested ==
    (lastOp = "configure") => ((~_config.disable_clean_session) <=> args[3])

\* the client start, the client stop of this step succeeded
StartSucceeded == _client \in startedClients' \ startedClients
StopSucceeded == _client \in startedClients \ startedClients'

\* C25: without a client handle connect() and disconnect() return false and
\* change nothing; with a handle connect() returns true and sets CONNECTING
\* exactly when the client start succeeds, and disconnect() returns true and sets
\* DISCONNECTED exactly when the client stop succeeds.
C25_ConnectDisconnect ==
    [][/\ (lastOp' \in {"connect", "disconnect"} /\ _client = 0) =>
              /\ ret' = "false"
              /\ calls' = << >>
              /\ UNCHANGED mqttVars
       /\ (lastOp' = "connect" /\ _client # 0) =>
              /\ ret' = "true" <=> StartSucceeded
              /\ mqtt_status' = "CONNECTING" <=> StartSucceeded
       /\ (lastOp' = "disconnect" /\ _client # 0) =>
              /\ ret' = "true" <=> StopSucceeded
              /\ StopSucceeded => mqtt_status' = "DISCONNECTED"
              /\ ~StopSucceeded => mqtt_status' = mqtt_status]_vars

C25_Witness ==
    /\ lastOp = "connect"
    /\ _client # 0
    /\ ret = "true"
    /\ mqtt_status = "CONNECTING"
    /\ _client \in startedClients

(***************************************************************************)
(* The three managers that have an observer.  They share no state, so a    *)
(* behaviour follows one of them from construction; a restart of the chip  *)
(* starts over.                                                            *)
(***************************************************************************)
WifiFresh ==
    /\ WiFiManager
    /\ eventLoopCreated = FALSE
    /\ handlersRegistered = FALSE
    /\ hostname = EmptyStr
    /\ hwMode = "WIFI_MODE_NULL"
    /\ hwStarted = FALSE
    /\ staLink = "idle"
    /\ hwApConfig = NoApConfig
    /\ eventQueue = << >>
    /\ pc = "idle"
    /\ ticksLeft = 0
    /\ uxReturn = {}
    /\ trace = << >>

AdcFresh == ADCManager /\ AdcPowerOn

MqttFresh == MqttClient /\ MqttPowerOn

ObserverNext ==
    \/ AdcFresh /\ MqttFresh /\ args = << >> /\ Next
    \/ WifiFresh /\ AdcFresh /\ MqttNext
    \/ WifiFresh /\ MqttFresh /\ AdcNext

SpecObservers == Init /\ [][ObserverNext]_vars

\* the notification due for the event this step delivers to a manager's handler
DueNotification ==
    CASE lastOp' = "wifiEventHandler" ->
            IF /\ _eventCallback # "nullptr"
               /\ ret' \in {"WIFI_EVENT_STA_DISCONNECTED", "IP_EVENT_STA_GOT_IP"}
            THEN << [callback |-> _eventCallback, status |-> _status',
                     userData |-> _userCallbackData, at |-> _status'] >>
            ELSE << >>
      [] lastOp' = "eventHandlerCb" ->
            IF _userCallback # "nullptr"
            THEN << [cb |-> _userCallback, data |-> _userData,
                     event |-> args'[1], status |-> mqtt_status'] >>
            ELSE << >>
      [] lastOp' = "continuousCallback" ->
            IF user_callback # "nullptr"
            THEN << [cb |-> user_callback, data |-> args'[1]] >>
            ELSE << >>
      [] OTHER -> << >>

TaskCallbackInputs == CallbackInputs \cup { <<"cb2", "data2">> }

\* _eventCallback = callback;
setEventCallback_callback(cb) ==
    /\ pc = "idle"
    /\ writing = << >>
    /\ _eventCallback' = cb[1]
    /\ writing' = <<cb[2]>>
    /\ lastOp' = "setEventCallback_callback"
    /\ ret' = "none"
    /\ calls' = << >>
    /\ notes' = << >>
    /\ UNCHANGED <<_mode, _status, credVars, _userCallbackData, initVars, eventBits,
                   hwMode, hwVars, waitVars, trace, dispatching, toggling>>

\* _userCallbackData = userData; and the return
setEventCallback_userData ==
    /\ writing # << >>
    /\ _userCallbackData' = writing[1]
    /\ writing' = << >>
    /\ Returned("setEventCallback", "void", << >>)
    /\ UNCHANGED <<_mode, _status, credVars, _eventCallback, initVars, eventBits,
                   hwMode, hwVars, waitVars, dispatching, toggling>>

\* the handler run on e tests the callback
handler_tests(e, cb) ==
    cb # "nullptr" /\ e \in {"WIFI_EVENT_STA_DISCONNECTED", "IP_EVENT_STA_GOT_IP"}

\* the handler on the oldest pending event, up to and including
\* `if (self->_eventCallback)`
wifiEventHandler_check ==
    LET e == Head(eventQueue)
    IN  /\ handlersRegistered
        /\ eventQueue # << >>
        /\ dispatching = << >>
        /\ eventQueue' = Tail(eventQueue)
        /\ _status' = handler_status(e, _status)
        /\ eventBits' = handler_bits(e, eventBits)
        /\ staLink' = IF CountConnect(handler_calls(e)) > 0
                      THEN connect_link(hwStarted, hwMode, staLink) ELSE staLink
        /\ IF pc = "waiting" /\ handler_sets_bits(e) /\ handler_bits(e, eventBits) # {}
           THEN pc' = "woken" /\ uxReturn' = handler_bits(e, eventBits)
           ELSE UNCHANGED <<pc, uxReturn>>
        /\ dispatching' = IF handler_tests(e, _eventCallback)
                          THEN <<e, _eventCallback>> ELSE << >>
        /\ lastOp' = IF handler_tests(e, _eventCallback)
                     THEN "wifiEventHandler_check" ELSE "wifiEventHandler"
        /\ ret' = e
        /\ calls' = handler_calls(e)
        /\ notes' = << >>
        /\ trace' = Record("wifiEventHandler", e, handler_calls(e))
        /\ UNCHANGED <<_mode, credVars, cbVars, initVars, hwMode, hostname, hwStarted,
                       hwApConfig, ticksLeft, writing, toggling>>

\* self->_eventCallback(status, self->_userCallbackData); reload says whether
\* the call reads the pointer again
wifiEventHandler_invoke(reload) ==
    /\ dispatching # << >>
    /\ notes' = << [ callback |-> IF reload THEN _eventCallback ELSE dispatching[2],
                     status |-> IF dispatching[1] = "IP_EVENT_STA_GOT_IP"
                                THEN "CONNECTED" ELSE "DISCONNECTED",
                     userData |-> _userCallbackData,
                     at |-> _status ] >>
    /\ dispatching' = << >>
    /\ lastOp' = "wifiEventHandler"
    /\ ret' = dispatching[1]
    /\ calls' = << >>
    /\ UNCHANGED <<mgrVars, initVars, eventBits, hwMode, hwVars, waitVars, trace, writing,
                   toggling>>

TaskNext ==
    \/ \E o \in InitOutcomes, stored \in StoredModes :
          writing = << >> /\ init(o, stored) /\ UNCHANGED peerVars
    \/ \E o \in InitOutcomes, stored \in StoredModes, hwOk \in BOOLEAN :
          writing = << >> /\ start(o, stored, hwOk) /\ UNCHANGED peerVars
    \/ \E cb \in TaskCallbackInputs :
          setEventCallback_callback(cb) /\ UNCHANGED <<args, gpioVars, adcVars, mqttVars>>
    \/ setEventCallback_userData /\ UNCHANGED <<args, gpioVars, adcVars, mqttVars>>
    \/ wifiEventHandler_check /\ UNCHANGED <<args, gpioVars, adcVars, mqttVars>>
    \/ \E reload \in BOOLEAN :
          wifiEventHandler_invoke(reload) /\ UNCHANGED <<args, gpioVars, adcVars, mqttVars>>
    \/ RadioGotIp /\ UNCHANGED peerVars
    \/ RadioDisconnected /\ UNCHANGED peerVars

SpecTasks == Init /\ [][TaskNext]_vars

\* C36: with setEventCallback(cb2, data2) running concurrently with the event
\* dispatch after setEventCallback(cb1, data1), every observer invocation uses
\* a pair that was registered together, and a callback that was non-null when
\* tested is non-null when invoked.
C36_MatchingPair ==
    \A i \in DOMAIN notes :
        /\ notes[i].callback # "nullptr"
        /\ notes[i].userData # "nullptr" =>
               <<notes[i].callback, notes[i].userData>> \in TaskCallbackInputs

(***************************************************************************)
(* GpioManager::toggle called from two contexts, the application and an    *)
(* interrupt callback.  toggle reads the level and then writes its         *)
(* complement; nothing holds the other context off between the two.        *)
(***************************************************************************)
Contexts == {"app", "isr"}

\* configurePin as an output, push-pull or open-drain
OutputInputs == {in \in ConfigureInputs : in[1] = "OUTPUT"}

\* int lvl = getLevel(pin);
toggle_getLevel(t, pin, ext) ==
    /\ toggling[t] = << >>
    /\ toggling' = [toggling EXCEPT ![t] = <<pin, gpio_get_level(pin, ext), outLatch[pin]>>]
    /\ lastOp' = "toggle_getLevel"
    /\ args' = <<pin, t>>
    /\ ret' = "none"
    /\ calls' = <<"gpio_get_level">>
    /\ notes' = << >>
    /\ UNCHANGED <<gpioVars, writing, dispatching>>

\* setLevel(pin, !lvl); and the return
toggle_setLevel(t) ==
    /\ toggling[t] # << >>
    /\ outLatch' = gpio_set_level(outLatch, toggling[t][1], toggle_level(toggling[t][2]))
    /\ toggling' = [toggling EXCEPT ![t] = << >>]
    /\ lastOp' = "toggle"
    /\ args' = <<toggling[t][1], t>>
    /\ ret' = "none"
    /\ calls' = <<"gpio_set_level">>
    /\ notes' = << >>
    /\ UNCHANGED <<gpio_initialized, _configs, isrServiceInstalled, pinMode, isrHandlers,
                   intrEnabled, installRequests, firstInit, resetPins, writing,
                   dispatching>>

ToggleNext ==
    \/ \E pin \in Pins, in \in OutputInputs, ok \in InstallOutcomes, hwOk \in BOOLEAN :
          configurePin(pin, in, ok, hwOk) /\ UNCHANGED <<wifiVars, adcVars, mqttVars>>
    \/ \E t \in Contexts, pin \in Pins, ext \in Levels :
          /\ toggle_getLevel(t, pin, ext)
          /\ UNCHANGED <<mgrVars, initVars, eventBits, hwMode, hwVars, waitVars, trace,
                         adcVars, mqttVars>>
    \/ \E t \in Contexts :
          /\ toggle_setLevel(t)
          /\ UNCHANGED <<mgrVars, initVars, eventBits, hwMode, hwVars, waitVars, trace,
                         adcVars, mqttVars>>

SpecToggle == Init /\ [][ToggleNext]_vars

\* context t completes, in this step, a toggle of pin p that read the level
\* the latch held
CompletesToggle(t, p) ==
    /\ toggling[t] # << >>
    /\ toggling'[t] = << >>
    /\ toggling[t][1] = p
    /\ toggling[t][2] = toggling[t][3]

\* C37: toggle(p) is atomic with respect to the other writers of p: when two
\* toggles of p interleave, the level ends as some sequential order of the two
\* leaves it; no toggle is lost, so the toggle that completes second inverts
\* the level the first one left.  Stated for an output whose level can be read
\* back (input enabled).
C37_ToggleAtomic ==
    [][\A t \in Contexts, p \in Pins :
          (/\ CompletesToggle(t, p)
           /\ lastOp = "toggle"
           /\ args[1] = p
           /\ pinMode[p] \in OutputModes
           /\ InputEnabled(pinMode[p])) =>
              outLatch'[p] # outLatch[p]]_vars

\* the clients created and not destroyed: only the destructor destroys one
LiveClients == 1..clientsCreated

\* C39: after any sequence of configure calls, successful or failed, at most
\* one client created by the manager is live and the stored handle refers to
\* it; a second configure leaves no earlier client alive.
C39_OneLiveClient ==
    /\ Cardinality(LiveClients) <= 1
    /\ LiveClients \subseteq {_client}

====
